---------------------------- MODULE Spec2Model ----------------------------
(***************************************************************************)
(* Model of the notes-taking agent: the formula extractors, the heading    *)
(* segmenter, the chunker, the topic merger, the formula enrichment and    *)
(* the document-processing workflow with its job manager.                  *)
(*                                                                         *)
(* A text is a sequence of characters; a character is a one-character      *)
(* string.  The four non-ASCII mathematical signs the patterns name are    *)
(* written "INT" (integral), "SUM", "PROD" and "PARTIAL".                  *)
(***************************************************************************)
EXTENDS Integers, Sequences, FiniteSets, TLC

VARIABLES
    text,            \* the input text of a text operation
    op,              \* the operation that has run on its input ("none": not yet)
    formulas,        \* the list an extractor returned
    topics,          \* the list a segmenter returned
    topics_again,    \* the list the segmenter returned when run a second time
    token_budget,    \* chunker: the max_tokens argument
    chunks,          \* chunker: the list returned
    structural,      \* merger: the structural topics
    candidates,      \* merger: the AI topics
    merged,          \* merger: the merged list after each candidate
    raw,             \* enrichment: the raw formulas
    enrich_topics,   \* enrichment: the ids of the topics argument
    replies,         \* enrichment: the reply of the service to each batch
    enhanced,        \* enrichment: the list returned
    active_jobs,     \* AgentManager.active_jobs
    results_cache,   \* AgentManager.results_cache
    agent_state,     \* the AgentState of each job's workflow
    task_pc,         \* where each job's background task stands
    task_file_path,  \* the file_path argument of each job
    processing_jobs, \* web_app.processing_jobs
    processor,       \* web_app.processor: the API key its client was built with
    web_pc,          \* where each web job's background task stands
    keywords,        \* the list _extract_keywords returned
    sim_text1,       \* _calculate_similarity: the first argument
    sim_text2,       \* _calculate_similarity: the second argument
    similarity,      \* the quotient _calculate_similarity returned
    now,             \* datetime.now(), in hours
    max_age_hours,   \* the argument of the last cleanup_old_jobs call
    response,        \* web_app: the last response of view_notes or download_notes
    sections         \* NotesAgent._create_structured_notes: the note sections, [topic_id, formulas]

extractVars == <<formulas, topics, topics_again>>
chunkVars == <<token_budget, chunks>>
mergeVars == <<structural, candidates, merged>>
enrichVars == <<raw, enrich_topics, replies, enhanced>>
jobVars == <<active_jobs, results_cache, agent_state, task_pc, task_file_path>>
webVars == <<processing_jobs, processor, web_pc>>
kwVars == <<keywords>>
simVars == <<sim_text1, sim_text2, similarity>>
cleanupVars == <<now, max_age_hours>>
respVars == <<response>>
notesVars == <<sections>>

vars == <<text, op, formulas, topics, topics_again, token_budget, chunks, structural, candidates,
          merged, raw, enrich_topics, replies, enhanced, active_jobs, results_cache,
          agent_state, task_pc, task_file_path, processing_jobs, processor, web_pc,
          keywords,
          sim_text1, sim_text2, similarity,
          now, max_age_hours,
          response,
          sections>>

(***************************************************************************)
(* Characters and the str methods the code uses.                           *)
(***************************************************************************)
UpperSeq == <<"A","B","C","D","E","F","G","H","I","J","K","L","M",
              "N","O","P","Q","R","S","T","U","V","W","X","Y","Z">>
LowerSeq == <<"a","b","c","d","e","f","g","h","i","j","k","l","m",
              "n","o","p","q","r","s","t","u","v","w","x","y","z">>
UpperSet == {UpperSeq[k] : k \in DOMAIN UpperSeq}
LowerSet == {LowerSeq[k] : k \in DOMAIN LowerSeq}
Letters == UpperSet \cup LowerSet
Digits == {"0","1","2","3","4","5","6","7","8","9"}
\* \w, \s and \d of re on str patterns, restricted to ASCII
WordChars == Letters \cup Digits \cup {"_"}
WhiteSpace == {" ", "\t", "\n", "\r", "\f"}

\* str.lower() on one character
ToLower(c) ==
    IF c \in UpperSet
    THEN LowerSeq[CHOOSE k \in DOMAIN UpperSeq : UpperSeq[k] = c]
    ELSE c

ToUpper(c) ==
    IF c \in LowerSet
    THEN UpperSeq[CHOOSE k \in DOMAIN LowerSeq : LowerSeq[k] = c]
    ELSE c

\* str.lower()
Lower(s) == [k \in DOMAIN s |-> ToLower(s[k])]

\* s[a:b] of Python for 0 <= a, b <= len(s): the characters at 0-based a..b-1
Slice(s, a, b) == IF b <= a THEN <<>> ELSE SubSeq(s, a + 1, b)

RECURSIVE LStripFrom(_, _)
LStripFrom(s, i) ==
    IF i <= Len(s) /\ s[i] \in WhiteSpace THEN LStripFrom(s, i + 1) ELSE i

RECURSIVE RStripTo(_, _)
RStripTo(s, j) ==
    IF j >= 1 /\ s[j] \in WhiteSpace THEN RStripTo(s, j - 1) ELSE j

\* str.strip()
Strip(s) == SubSeq(s, LStripFrom(s, 1), RStripTo(s, Len(s)))

\* str.isdigit()
IsDigit(s) == Len(s) > 0 /\ \A k \in DOMAIN s : s[k] \in Digits

RECURSIVE RemoveChars(_, _)
RemoveChars(s, drop) ==
    IF s = <<>> THEN <<>>
    ELSE IF Head(s) \in drop THEN RemoveChars(Tail(s), drop)
    ELSE <<Head(s)>> \o RemoveChars(Tail(s), drop)

\* str.replace(old, new) for a one-character old
ReplaceChar(s, old, new) == [k \in DOMAIN s |-> IF s[k] = old THEN new ELSE s[k]]

RECURSIVE Flatten(_)
Flatten(ss) == IF ss = <<>> THEN <<>> ELSE Head(ss) \o Flatten(Tail(ss))

Max(a, b) == IF a >= b THEN a ELSE b
Min(a, b) == IF a <= b THEN a ELSE b

(***************************************************************************)
(* Regular expressions.  A pattern is a sequence of atoms: a repetition of *)
(* a character class ("rep": lo..hi times, hi = -1 for no upper limit,     *)
(* greedy or lazy), the assertions ^ ("bol"), $ ("eol") and \b ("wb"), and *)
(* the parentheses of a capture group ("open", "close").  Matching is the  *)
(* backtracking search of re: the first match in priority order.           *)
(***************************************************************************)
Atom(k, cs, neg, lo, hi, greedy) ==
    [k |-> k, cs |-> cs, neg |-> neg, lo |-> lo, hi |-> hi, greedy |-> greedy]
In(cs) == Atom("rep", cs, FALSE, 1, 1, TRUE)                 \* [..]
NotIn(cs) == Atom("rep", cs, TRUE, 1, 1, TRUE)               \* [^..]
Star(cs) == Atom("rep", cs, FALSE, 0, -1, TRUE)              \* [..]*
Plus(cs) == Atom("rep", cs, FALSE, 1, -1, TRUE)              \* [..]+
Opt(cs) == Atom("rep", cs, FALSE, 0, 1, TRUE)                \* [..]?
Times(cs, lo, hi) == Atom("rep", cs, FALSE, lo, hi, TRUE)    \* [..]{lo,hi}
NotStar(cs) == Atom("rep", cs, TRUE, 0, -1, TRUE)            \* [^..]*
NotPlus(cs) == Atom("rep", cs, TRUE, 1, -1, TRUE)            \* [^..]+
NotAtLeast(cs, lo) == Atom("rep", cs, TRUE, lo, -1, TRUE)    \* [^..]{lo,}
LazyNotStar(cs) == Atom("rep", cs, TRUE, 0, -1, FALSE)       \* [^..]*?
GOpen == Atom("open", {}, FALSE, 0, 0, TRUE)                 \* (
GClose == Atom("close", {}, FALSE, 0, 0, TRUE)               \* )
Bol == Atom("bol", {}, FALSE, 0, 0, TRUE)                    \* ^
Eol == Atom("eol", {}, FALSE, 0, 0, TRUE)                    \* $
\* a literal string; under re.IGNORECASE each letter matches in both cases
Lit(s, ignorecase) ==
    [k \in DOMAIN s |->
        In(IF ignorecase THEN {ToLower(s[k]), ToUpper(s[k])} ELSE {s[k]})]

ClassHas(a, c) == IF a.neg THEN c \notin a.cs ELSE c \in a.cs

\* how many characters from position i on are of atom a's class (at most hi)
RECURSIVE RunLen(_, _, _, _)
RunLen(a, s, i, n) ==
    IF (a.hi >= 0 /\ n >= a.hi) \/ i + n > Len(s) THEN n
    ELSE IF ClassHas(a, s[i + n]) THEN RunLen(a, s, i, n + 1)
    ELSE n

NoMatch == [ok |-> FALSE, start |-> 0, end |-> 0, marks |-> <<>>]

RECURSIVE MatchFrom(_, _, _, _, _, _)
RECURSIVE TryRep(_, _, _, _, _, _, _, _)
\* the first match of atoms k.. at position i of s (1-based; end is the
\* position after the match); marks are the positions of the parentheses;
\* multiline is re.MULTILINE
MatchFrom(atoms, k, s, i, marks, multiline) ==
    IF k > Len(atoms) THEN [ok |-> TRUE, start |-> 0, end |-> i, marks |-> marks]
    ELSE LET a == atoms[k] IN
      CASE a.k \in {"open", "close"} ->
             MatchFrom(atoms, k + 1, s, i, Append(marks, i), multiline)
        [] a.k = "bol" ->
             IF i = 1 \/ (multiline /\ s[i - 1] = "\n")
             THEN MatchFrom(atoms, k + 1, s, i, marks, multiline)
             ELSE NoMatch
        [] a.k = "eol" ->
             IF \/ i = Len(s) + 1
                \/ (i = Len(s) /\ s[i] = "\n")
                \/ (multiline /\ i <= Len(s) /\ s[i] = "\n")
             THEN MatchFrom(atoms, k + 1, s, i, marks, multiline)
             ELSE NoMatch
        [] a.k = "wb" ->
             LET before == i > 1 /\ s[i - 1] \in WordChars
                 after == i <= Len(s) /\ s[i] \in WordChars
             IN IF before # after
                THEN MatchFrom(atoms, k + 1, s, i, marks, multiline)
                ELSE NoMatch
        [] OTHER ->
             LET run == RunLen(a, s, i, 0) IN
             IF run < a.lo THEN NoMatch
             ELSE IF a.greedy
                  THEN TryRep(atoms, k, s, i, marks, multiline, run, a.lo)
                  ELSE TryRep(atoms, k, s, i, marks, multiline, a.lo, run)

\* atom k taken n times, then n-1, .. down to last (greedy), or n, n+1, ..
\* up to last (lazy): the first count with which the rest matches
TryRep(atoms, k, s, i, marks, multiline, n, last) ==
    LET m == MatchFrom(atoms, k + 1, s, i + n, marks, multiline) IN
    IF m.ok THEN m
    ELSE IF n = last THEN NoMatch
    ELSE TryRep(atoms, k, s, i, marks, multiline,
                IF last < n THEN n - 1 ELSE n + 1, last)

\* re.match(pattern, s)
ReMatch(atoms, s) == MatchFrom(atoms, 1, s, 1, <<>>, FALSE)

\* re.finditer(pattern, s): the non-overlapping matches from left to right
RECURSIVE FindIterFrom(_, _, _, _)
FindIterFrom(atoms, s, i, multiline) ==
    IF i > Len(s) + 1 THEN <<>>
    ELSE LET m == MatchFrom(atoms, 1, s, i, <<>>, multiline) IN
         IF m.ok
         THEN <<[m EXCEPT !.start = i]>>
              \o FindIterFrom(atoms, s, IF m.end > i THEN m.end ELSE i + 1, multiline)
         ELSE FindIterFrom(atoms, s, i + 1, multiline)

FindIter(atoms, s, multiline) == FindIterFrom(atoms, s, 1, multiline)

\* match.group(g) for a group that took part in the match (g >= 1)
Group(m, s, g) == SubSeq(s, m.marks[2 * g - 1], m.marks[2 * g] - 1)
\* match.group(0)
Group0(m, s) == SubSeq(s, m.start, m.end - 1)
\* len(match.groups())
NumGroups(atoms) == Cardinality({k \in DOMAIN atoms : atoms[k].k = "open"})


(***************************************************************************)
(* Sequence helpers.                                                       *)
(***************************************************************************)
\* the indices of keys in ascending key order, equal keys in index order
\* (Python's sort is stable)
RECURSIVE InsertIndex(_, _, _)
InsertIndex(perm, x, keys) ==
    IF perm = <<>> THEN <<x>>
    ELSE LET last == perm[Len(perm)] IN
         IF keys[last] <= keys[x] THEN Append(perm, x)
         ELSE Append(InsertIndex(SubSeq(perm, 1, Len(perm) - 1), x, keys), last)

RECURSIVE SortPerm(_, _)
SortPerm(keys, n) ==
    IF n = 0 THEN <<>> ELSE InsertIndex(SortPerm(keys, n - 1), n, keys)

\* sorted(s, key=...), keys[k] being the key of s[k]
SortedBy(s, keys) ==
    LET perm == SortPerm(keys, Len(s))
    IN [k \in DOMAIN s |-> s[perm[k]]]


(***************************************************************************)
(* ContentAnalyzer._extract_formulas_by_pattern                            *)
(***************************************************************************)
MathStop == {",", ".", "\n"}                 \* the class [^,\.\n] excludes these
IdentStart == Letters \cup {"_"}             \* [A-Za-z_]
BeginEnv(name) == Lit(<<"\\","b","e","g","i","n","{">> \o name \o <<"}">>, TRUE)
EndEnv(name) == Lit(<<"\\","e","n","d","{">> \o name \o <<"}">>, TRUE)
EnvEquation == <<"e","q","u","a","t","i","o","n">>
EnvAlign == <<"a","l","i","g","n">>
EnvGather == <<"g","a","t","h","e","r">>
\* \begin{name}(.*?)\end{name} under re.DOTALL
EnvPattern(name) ==
    BeginEnv(name) \o <<GOpen, LazyNotStar({}), GClose>> \o EndEnv(name)

CAContextRadius == 100

CAFormulaPatterns == <<
    \* \$\$([^$]+)\$\$
    [atoms |-> <<In({"$"}), In({"$"}), GOpen, NotPlus({"$"}), GClose,
                 In({"$"}), In({"$"})>>,
     type |-> "display_math"],
    \* \$([^$\n]{3,})\$
    [atoms |-> <<In({"$"}), GOpen, NotAtLeast({"$", "\n"}, 3), GClose, In({"$"})>>,
     type |-> "inline_math"],
    [atoms |-> EnvPattern(EnvEquation), type |-> "equation"],
    [atoms |-> EnvPattern(EnvAlign), type |-> "align"],
    \* ([A-Za-z_]\w*\s*=\s*[^,\.\n]{5,})
    [atoms |-> <<GOpen, In(IdentStart), Star(WordChars), Star(WhiteSpace),
                 In({"="}), Star(WhiteSpace), NotAtLeast(MathStop, 5), GClose>>,
     type |-> "equation"],
    \* ([∫∑∏][^,\.\n]{3,})
    [atoms |-> <<GOpen, In({"INT", "SUM", "PROD"}), NotAtLeast(MathStop, 3), GClose>>,
     type |-> "integral_sum"],
    \* ([A-Za-z_]\w*\([^)]+\)\s*=\s*[^,\.\n]{3,})
    [atoms |-> <<GOpen, In(IdentStart), Star(WordChars), In({"("}), NotPlus({")"}),
                 In({")"}), Star(WhiteSpace), In({"="}), Star(WhiteSpace),
                 NotAtLeast(MathStop, 3), GClose>>,
     type |-> "function"],
    \* (d[A-Za-z_]\w*/d[A-Za-z_]\w*[^,\.\n]*)
    [atoms |-> <<GOpen, In({"d", "D"}), In(IdentStart), Star(WordChars), In({"/"}),
                 In({"d", "D"}), In(IdentStart), Star(WordChars), NotStar(MathStop),
                 GClose>>,
     type |-> "derivative"],
    \* (∂[A-Za-z_]\w*/∂[A-Za-z_]\w*[^,\.\n]*)
    [atoms |-> <<GOpen, In({"PARTIAL"}), In(IdentStart), Star(WordChars), In({"/"}),
                 In({"PARTIAL"}), In(IdentStart), Star(WordChars), NotStar(MathStop),
                 GClose>>,
     type |-> "partial_derivative"] >>

\* the text of a match: group 1 when the pattern has a group, else group 0
CAFormulaText(p, m, t) ==
    Strip(IF NumGroups(p.atoms) > 0 THEN Group(m, t, 1) ELSE Group0(m, t))

\* the filter "very short or invalid": kept when it is passed
CAKeepMatch(latex) == ~(Len(latex) < 3 \/ IsDigit(latex))

\* the context of a match: the text 100 characters around it, newlines as spaces
CAContext(m, t) ==
    LET start_pos == Max(0, (m.start - 1) - CAContextRadius)
        end_pos == Min(Len(t), (m.end - 1) + CAContextRadius)
    IN Strip(ReplaceChar(Slice(t, start_pos, end_pos), "\n", " "))

\* the candidates of one pattern, in match order (the id is given later)
RECURSIVE CAPatternCandidates(_, _, _)
CAPatternCandidates(p, ms, t) ==
    IF ms = <<>> THEN <<>>
    ELSE LET m == Head(ms)
             latex == CAFormulaText(p, m, t)
         IN (IF CAKeepMatch(latex)
             THEN <<[id |-> 0, latex |-> latex, type |-> p.type,
                     context |-> CAContext(m, t), position |-> m.start - 1,
                     raw_match |-> Group0(m, t)]>>
             ELSE <<>>) \o CAPatternCandidates(p, Tail(ms), t)

RECURSIVE CACandidatesFrom(_, _)
CACandidatesFrom(k, t) ==
    IF k > Len(CAFormulaPatterns) THEN <<>>
    ELSE CAPatternCandidates(CAFormulaPatterns[k],
                             FindIter(CAFormulaPatterns[k].atoms, t, FALSE), t)
         \o CACandidatesFrom(k + 1, t)

\* formula_id counts the appended candidates: "formula_<n>" is modelled as n
NumberIds(cands) == [k \in DOMAIN cands |-> [cands[k] EXCEPT !.id = k]]

\* re.sub(r'\s+', '', latex.lower())
CANormalize(latex) == RemoveChars(Lower(latex), WhiteSpace)

FormulaPosition(f) == f.position

RECURSIVE CADedup(_, _)
CADedup(fs, seen) ==
    IF fs = <<>> THEN <<>>
    ELSE LET normalized == CANormalize(Head(fs).latex) IN
         IF normalized \notin seen /\ Len(normalized) > 2
         THEN <<Head(fs)>> \o CADedup(Tail(fs), seen \cup {normalized})
         ELSE CADedup(Tail(fs), seen)

CAExtractFormulasByPattern(t) ==
    LET found == NumberIds(CACandidatesFrom(1, t)) IN
    CADedup(SortedBy(found, [k \in DOMAIN found |-> FormulaPosition(found[k])]), {})


(***************************************************************************)
(* PDFParser.extract_formulas                                              *)
(***************************************************************************)
\* the latex patterns are used with re.DOTALL | re.IGNORECASE
PPLatexPatterns == <<
    \* \$\$([^$]+)\$\$
    <<In({"$"}), In({"$"}), GOpen, NotPlus({"$"}), GClose, In({"$"}), In({"$"})>>,
    \* \$([^$]+)\$
    <<In({"$"}), GOpen, NotPlus({"$"}), GClose, In({"$"})>>,
    EnvPattern(EnvEquation),
    EnvPattern(EnvAlign),
    EnvPattern(EnvGather) >>

\* the expression patterns are used with re.MULTILINE
PPMathPatterns == <<
    \* ([a-zA-Z]\s*=\s*[^,\.\n]+)
    <<GOpen, In(Letters), Star(WhiteSpace), In({"="}), Star(WhiteSpace),
      NotPlus(MathStop), GClose>>,
    \* ([∫∑∏][^,\.\n]+)
    <<GOpen, In({"INT", "SUM", "PROD"}), NotPlus(MathStop), GClose>>,
    \* ([a-zA-Z]+\([^)]+\)\s*=\s*[^,\.\n]+)
    <<GOpen, Plus(Letters), In({"("}), NotPlus({")"}), In({")"}), Star(WhiteSpace),
      In({"="}), Star(WhiteSpace), NotPlus(MathStop), GClose>> >>

PPKeepLatex(formula_text) == Len(formula_text) > 2
PPKeepMath(formula_text) ==
    Len(formula_text) > 3 /\ \E k \in DOMAIN formula_text : formula_text[k] = "="

PPKeep(type, formula_text) ==
    IF type = "latex" THEN PPKeepLatex(formula_text) ELSE PPKeepMath(formula_text)

RECURSIVE PPPatternCandidates(_, _, _)
PPPatternCandidates(ms, t, type) ==
    IF ms = <<>> THEN <<>>
    ELSE LET m == Head(ms)
             formula_text == Strip(Group(m, t, 1))
         IN (IF PPKeep(type, formula_text)
             THEN <<[id |-> 0, latex |-> formula_text, raw_text |-> Group0(m, t),
                     start_pos |-> m.start - 1, end_pos |-> m.end - 1,
                     type |-> type]>>
             ELSE <<>>) \o PPPatternCandidates(Tail(ms), t, type)

RECURSIVE PPLatexCandidatesFrom(_, _)
PPLatexCandidatesFrom(k, t) ==
    IF k > Len(PPLatexPatterns) THEN <<>>
    ELSE PPPatternCandidates(FindIter(PPLatexPatterns[k], t, FALSE), t, "latex")
         \o PPLatexCandidatesFrom(k + 1, t)

RECURSIVE PPMathCandidatesFrom(_, _)
PPMathCandidatesFrom(k, t) ==
    IF k > Len(PPMathPatterns) THEN <<>>
    ELSE PPPatternCandidates(FindIter(PPMathPatterns[k], t, TRUE), t, "expression")
         \o PPMathCandidatesFrom(k + 1, t)

\* formula['latex'].replace(' ', '').lower()
PPFormulaKey(latex) == Lower(RemoveChars(latex, {" "}))

FormulaStartPos(f) == f.start_pos

RECURSIVE PPDedup(_, _)
PPDedup(fs, seen) ==
    IF fs = <<>> THEN <<>>
    ELSE LET formula_key == PPFormulaKey(Head(fs).latex) IN
         IF formula_key \notin seen
         THEN <<Head(fs)>> \o PPDedup(Tail(fs), seen \cup {formula_key})
         ELSE PPDedup(Tail(fs), seen)

PPExtractFormulas(t) ==
    LET found == NumberIds(PPLatexCandidatesFrom(1, t) \o PPMathCandidatesFrom(1, t)) IN
    PPDedup(SortedBy(found, [k \in DOMAIN found |-> FormulaStartPos(found[k])]), {})

(***************************************************************************)
(* ContentAnalyzer._identify_structural_topics and its helpers             *)
(***************************************************************************)
\* str.split(sep) for a non-empty separator
RECURSIVE SplitFrom(_, _, _, _)
SplitFrom(s, sep, i, from) ==
    IF i + Len(sep) - 1 > Len(s) THEN <<SubSeq(s, from, Len(s))>>
    ELSE IF SubSeq(s, i, i + Len(sep) - 1) = sep
         THEN <<SubSeq(s, from, i - 1)>> \o SplitFrom(s, sep, i + Len(sep), i + Len(sep))
         ELSE SplitFrom(s, sep, i + 1, from)

Split(s, sep) == SplitFrom(s, sep, 1, 1)

\* sep.join(parts)
RECURSIVE Join(_, _)
Join(parts, sep) ==
    IF parts = <<>> THEN <<>>
    ELSE IF Len(parts) = 1 THEN parts[1]
    ELSE parts[1] \o sep \o Join(Tail(parts), sep)

\* str.startswith(prefix)
StartsWith(s, prefix) == Len(s) >= Len(prefix) /\ SubSeq(s, 1, Len(prefix)) = prefix

DigitSeq == <<"0","1","2","3","4","5","6","7","8","9">>
DigitVal(c) == (CHOOSE k \in DOMAIN DigitSeq : DigitSeq[k] = c) - 1

\* int(s) for a string of digits
RECURSIVE ParseInt(_)
ParseInt(s) ==
    IF s = <<>> THEN 0 ELSE 10 * ParseInt(SubSeq(s, 1, Len(s) - 1)) + DigitVal(s[Len(s)])

Dot == NotPlus({"\n"})     \* (.+) without re.DOTALL

\* parent_id = None
None == 0

\* the heading rules (pattern, level, type), used with re.IGNORECASE
CAHeadingPatterns == <<
    \* ^Chapter\s+(\d+)[:\.]?\s*(.+)$
    [atoms |-> <<Bol>> \o Lit(<<"C","h","a","p","t","e","r">>, TRUE)
               \o <<Plus(WhiteSpace), GOpen, Plus(Digits), GClose, Opt({":", "."}),
                    Star(WhiteSpace), GOpen, Dot, GClose, Eol>>,
     level |-> 1, type |-> "chapter"],
    \* ^Section\s+(\d+)[:\.]?\s*(.+)$
    [atoms |-> <<Bol>> \o Lit(<<"S","e","c","t","i","o","n">>, TRUE)
               \o <<Plus(WhiteSpace), GOpen, Plus(Digits), GClose, Opt({":", "."}),
                    Star(WhiteSpace), GOpen, Dot, GClose, Eol>>,
     level |-> 2, type |-> "section"],
    \* ^(\d+)\.\s+(.+)$
    [atoms |-> <<Bol, GOpen, Plus(Digits), GClose, In({"."}), Plus(WhiteSpace),
                 GOpen, Dot, GClose, Eol>>,
     level |-> 2, type |-> "section"],
    \* ^(\d+)\.(\d+)\s+(.+)$
    [atoms |-> <<Bol, GOpen, Plus(Digits), GClose, In({"."}), GOpen, Plus(Digits),
                 GClose, Plus(WhiteSpace), GOpen, Dot, GClose, Eol>>,
     level |-> 3, type |-> "subsection"],
    \* ^#{1,3}\s+(.+)$
    [atoms |-> <<Bol, Times({"#"}, 1, 3), Plus(WhiteSpace), GOpen, Dot, GClose, Eol>>,
     level |-> 2, type |-> "section"] >>

\* FirstMatching that tries the rule at k only and none after it
FirstRuleOnly(patterns, line, k) ==
    IF k > Len(patterns) THEN 0
    ELSE IF ReMatch(patterns[k].atoms, line).ok THEN k
    ELSE 0

\* the first rule, at or after rule k, that matches the line (0: none)
RECURSIVE FirstMatching(_, _, _)
FirstMatching(patterns, line, k) ==
    IF k > Len(patterns) THEN 0
    ELSE IF ReMatch(patterns[k].atoms, line).ok THEN k
    ELSE FirstMatching(patterns, line, k + 1)

\* the title taken from the groups of a match of rule p
CATitle(p, m, line) ==
    LET n == NumGroups(p.atoms) IN
    IF p.type = "chapter"
    THEN (IF n >= 2 THEN Strip(Group(m, line, 2)) ELSE Strip(Group(m, line, 1)))
    ELSE IF n >= 3 THEN Strip(Group(m, line, 3))
    ELSE IF n >= 1 THEN Strip(Group(m, line, n))
    ELSE Strip(Group0(m, line))

CATitleAccepted(title) == Len(title) > 2 /\ ~IsDigit(title)

\* ^(Chapter|Section|\d+\.|\#{1,3}), used with re.IGNORECASE
NextHeaderPatterns == <<
    <<Bol>> \o Lit(<<"C","h","a","p","t","e","r">>, TRUE),
    <<Bol>> \o Lit(<<"S","e","c","t","i","o","n">>, TRUE),
    <<Bol, Plus(Digits), In({"."})>>,
    <<Bol, Times({"#"}, 1, 3)>> >>

IsNextHeader(line) ==
    \E k \in DOMAIN NextHeaderPatterns : ReMatch(NextHeaderPatterns[k], line).ok

PageMarkerPrefix == <<"-","-","-"," ","P","a","g","e"," ">>    \* '--- Page '
PageMarkerPrefix2 == <<"-","-","-"," ","P","a","g","e">>       \* '--- Page'

MaxContentLines == 50

\* the content lines from 0-based index i up to, not including, stop
RECURSIVE ContentLinesFrom(_, _, _)
ContentLinesFrom(lines, i, stop) ==
    IF i >= stop THEN <<>>
    ELSE LET line == Strip(lines[i + 1]) IN
         IF IsNextHeader(line) THEN <<>>
         ELSE (IF line # <<>> /\ ~StartsWith(line, PageMarkerPrefix2)
               THEN <<line>> ELSE <<>>)
              \o ContentLinesFrom(lines, i + 1, stop)

\* _extract_topic_content(lines, start_line, max_lines); start_line is 0-based
ExtractTopicContent(lines, start_line, max_lines) ==
    Join(ContentLinesFrom(lines, start_line + 1,
                          Min(start_line + max_lines, Len(lines))), <<"\n">>)

\* the stop words of _extract_keywords
StopWords == {
    <<"t","h","e">>, <<"a","n","d">>, <<"f","o","r">>, <<"a","r","e">>,
    <<"b","u","t">>, <<"n","o","t">>, <<"y","o","u">>, <<"a","l","l">>,
    <<"c","a","n">>, <<"h","a","d">>, <<"h","e","r">>, <<"w","a","s">>,
    <<"o","n","e">>, <<"o","u","r">>, <<"o","u","t">>, <<"d","a","y">>,
    <<"g","e","t">>, <<"h","a","s">>, <<"h","i","m">>, <<"h","i","s">>,
    <<"h","o","w">>, <<"i","t","s">>, <<"m","a","y">>, <<"n","e","w">>,
    <<"n","o","w">>, <<"o","l","d">>, <<"s","e","e">>, <<"t","w","o">>,
    <<"w","h","o">>, <<"b","o","y">>, <<"d","i","d">>, <<"m","a","n">>,
    <<"w","a","y">>, <<"s","h","e">>, <<"u","s","e">>, <<"m","a","n","y">>,
    <<"o","i","l">>, <<"s","i","t">>, <<"s","e","t">>, <<"r","u","n">>,
    <<"e","a","t">>, <<"f","a","r">>, <<"s","e","a">>, <<"e","y","e">>,
    <<"a","s","k">>, <<"o","w","n">>, <<"s","a","y">>, <<"t","o","o">>,
    <<"a","n","y">>, <<"t","r","y">>, <<"l","e","t">>, <<"p","u","t">>,
    <<"e","n","d">>, <<"w","h","y">>, <<"t","u","r","n">>,
    <<"h","e","r","e">>, <<"s","h","o","w">>, <<"e","v","e","r","y">>,
    <<"g","o","o","d">>, <<"m","e">>, <<"g","i","v","e">>,
    <<"u","n","d","e","r">>, <<"n","a","m","e">>, <<"v","e","r","y">>,
    <<"t","h","r","o","u","g","h">>, <<"j","u","s","t">>,
    <<"f","o","r","m">>, <<"s","e","n","t","e","n","c","e">>,
    <<"g","r","e","a","t">>, <<"t","h","i","n","k">>,
    <<"w","h","e","r","e">>, <<"h","e","l","p">>, <<"m","u","c","h">>,
    <<"b","e","f","o","r","e">>, <<"m","o","v","e">>,
    <<"r","i","g","h","t">>, <<"m","e","a","n","s">>, <<"s","a","m","e">>,
    <<"t","e","l","l">>, <<"f","o","l","l","o","w">>, <<"c","a","m","e">>,
    <<"w","a","n","t">>, <<"a","l","s","o">>, <<"a","r","o","u","n","d">>,
    <<"f","a","r","m">>, <<"t","h","r","e","e">>, <<"s","m","a","l","l">>,
    <<"d","o","e","s">>, <<"a","n","o","t","h","e","r">>,
    <<"w","e","l","l">>, <<"l","a","r","g","e">>, <<"m","u","s","t">>,
    <<"b","i","g">>, <<"e","v","e","n">>, <<"s","u","c","h">>,
    <<"b","e","c","a","u","s","e">>, <<"w","e","n","t">>, <<"m","e","n">>,
    <<"r","e","a","d">>, <<"n","e","e","d">>, <<"l","a","n","d">>,
    <<"d","i","f","f","e","r","e","n","t">>, <<"h","o","m","e">>,
    <<"u","s">>, <<"k","i","n","d">>, <<"h","a","n","d">>,
    <<"p","i","c","t","u","r","e">>, <<"a","g","a","i","n">>,
    <<"c","h","a","n","g","e">>, <<"o","f","f">>, <<"p","l","a","y">>,
    <<"s","p","e","l","l">>, <<"a","i","r">>, <<"a","w","a","y">>,
    <<"a","n","i","m","a","l">>, <<"h","o","u","s","e">>,
    <<"p","o","i","n","t">>, <<"p","a","g","e">>,
    <<"l","e","t","t","e","r">>, <<"m","o","t","h","e","r">>,
    <<"a","n","s","w","e","r">>, <<"f","o","u","n","d">>,
    <<"s","t","u","d","y">>, <<"s","t","i","l","l">>,
    <<"l","e","a","r","n">>, <<"s","h","o","u","l","d">>,
    <<"a","m","e","r","i","c","a">>, <<"w","o","r","l","d">> }

\* \b[A-Za-z]{3,}\b
WordPattern ==
    <<Atom("wb", {}, FALSE, 0, 0, TRUE), Atom("rep", Letters, FALSE, 3, -1, TRUE),
      Atom("wb", {}, FALSE, 0, 0, TRUE)>>

\* re.findall for a pattern without groups
FindAll(atoms, s) ==
    LET ms == FindIter(atoms, s, FALSE) IN [k \in DOMAIN ms |-> Group0(ms[k], s)]

KeepWord(word) == word \notin StopWords /\ Len(word) > 3

\* the distinct words in first-seen order (the keys of word_freq)
RECURSIVE FirstSeen(_, _)
FirstSeen(words, seen) ==
    IF words = <<>> THEN <<>>
    ELSE IF Head(words) \in seen THEN FirstSeen(Tail(words), seen)
    ELSE <<Head(words)>> \o FirstSeen(Tail(words), seen \cup {Head(words)})

CountOf(words, w) == Cardinality({k \in DOMAIN words : words[k] = w})

MaxKeywords == 10

\* _extract_keywords(text)
ExtractKeywords(t) ==
    LET words == FindAll(WordPattern, Lower(t))
        filtered_words == SelectSeq(words, KeepWord)
        keys == FirstSeen(filtered_words, {})
        word_freq == [k \in DOMAIN keys |->
                         [word |-> keys[k], freq |-> CountOf(filtered_words, keys[k])]]
        sorted_words == SortedBy(word_freq, [k \in DOMAIN word_freq |-> 0 - word_freq[k].freq])
        top == SubSeq(sorted_words, 1, Min(MaxKeywords, Len(sorted_words)))
        Repeated(x) == x.freq > 1
        kept == SelectSeq(top, Repeated)
    IN [k \in DOMAIN kept |-> kept[k].word]

\* ParentOf with "<=" for "<": an earlier topic of the same level becomes the parent
RECURSIVE ParentOfSameLevel(_, _, _)
ParentOfSameLevel(ts, i, j) ==
    IF j < 1 THEN ts[i].parent_id
    ELSE IF ts[j].level <= ts[i].level THEN ts[j].id
    ELSE ParentOfSameLevel(ts, i, j - 1)

\* ParentOf scanning forward from the first topic: the farthest earlier topic
\* of a lower level becomes the parent
ParentOfFarthest(ts, i, j) ==
    LET lower == {k \in 1..j : ts[k].level < ts[i].level} IN
    IF lower = {} THEN ts[i].parent_id
    ELSE ts[CHOOSE k \in lower : \A l \in lower : k <= l].id

\* _set_parent_relationships: the nearest earlier topic of a lower level
RECURSIVE ParentOf(_, _, _)
ParentOf(ts, i, j) ==
    IF j < 1 THEN ts[i].parent_id
    ELSE IF ts[j].level < ts[i].level THEN ts[j].id
    ELSE ParentOf(ts, i, j - 1)

SetParentRelationships(ts) ==
    [i \in DOMAIN ts |-> [ts[i] EXCEPT !.parent_id = ParentOf(ts, i, i - 1)]]

\* the page a '--- Page N ---' line sets; the page stays when N is missing
\* --- Page (\d+) ---
PageMarkerPattern ==
    Lit(PageMarkerPrefix, FALSE) \o <<GOpen, Plus(Digits), GClose>>
    \o Lit(<<" ","-","-","-">>, FALSE)

PageAfterMarker(line, current_page) ==
    LET ms == FindIter(PageMarkerPattern, line, FALSE) IN
    IF ms = <<>> THEN current_page ELSE ParseInt(Group(ms[1], line, 1))

\* the loop over the lines, from 0-based line_num on
RECURSIVE CATopicsFrom(_, _, _, _)
CATopicsFrom(lines, line_num, topic_id, current_page) ==
    IF line_num >= Len(lines) THEN <<>>
    ELSE LET line == Strip(lines[line_num + 1]) IN
      IF StartsWith(line, PageMarkerPrefix)
      THEN CATopicsFrom(lines, line_num + 1, topic_id, PageAfterMarker(line, current_page))
      ELSE IF line = <<>> \/ Len(line) < 3
      THEN CATopicsFrom(lines, line_num + 1, topic_id, current_page)
      ELSE LET k == FirstMatching(CAHeadingPatterns, line, 1) IN
        IF k = 0 THEN CATopicsFrom(lines, line_num + 1, topic_id, current_page)
        ELSE LET p == CAHeadingPatterns[k]
                 title == CATitle(p, ReMatch(p.atoms, line), line)
             IN IF CATitleAccepted(title)
                THEN LET content == ExtractTopicContent(lines, line_num, MaxContentLines)
                     IN <<[id |-> topic_id, title |-> title, type |-> p.type,
                           level |-> p.level, parent_id |-> None, content |-> content,
                           page_range |-> <<current_page, current_page>>,
                           keywords |-> ExtractKeywords(content)]>>
                        \o CATopicsFrom(lines, line_num + 1, topic_id + 1, current_page)
                ELSE CATopicsFrom(lines, line_num + 1, topic_id, current_page)

\* CAIdentifyStructuralTopics with a fallback: a text without headings becomes
\* one topic holding the whole text
CAIdentifyStructuralTopicsFallback(t) ==
    LET found == CATopicsFrom(Split(t, <<"\n">>), 0, 1, 1) IN
    IF found = <<>>
    THEN <<[id |-> 1, title |-> t, type |-> "concept", level |-> 1, parent_id |-> None,
            content |-> t, page_range |-> <<1, 1>>, keywords |-> <<>>]>>
    ELSE SetParentRelationships(found)

\* CAIdentifyStructuralTopicsAfter with a list kept between calls: the topics of
\* a call are appended to those of the earlier call
CAIdentifyStructuralTopicsKeeping(earlier_topics, t) ==
    earlier_topics \o SetParentRelationships(CATopicsFrom(Split(t, <<"\n">>), 0, 1, 1))

\* _identify_structural_topics(text); "topic_<n>" is modelled as n
CAIdentifyStructuralTopics(t) ==
    SetParentRelationships(CATopicsFrom(Split(t, <<"\n">>), 0, 1, 1))

(***************************************************************************)
(* PDFParser.identify_topics                                               *)
(***************************************************************************)
PPHeadingPatterns == <<
    \* ^#{1}\s+(.+)$
    [atoms |-> <<Bol, Times({"#"}, 1, 1), Plus(WhiteSpace), GOpen, Dot, GClose, Eol>>,
     level |-> 1, type |-> "chapter"],
    \* ^#{2}\s+(.+)$
    [atoms |-> <<Bol, Times({"#"}, 2, 2), Plus(WhiteSpace), GOpen, Dot, GClose, Eol>>,
     level |-> 2, type |-> "section"],
    \* ^#{3}\s+(.+)$
    [atoms |-> <<Bol, Times({"#"}, 3, 3), Plus(WhiteSpace), GOpen, Dot, GClose, Eol>>,
     level |-> 3, type |-> "subsection"],
    \* ^Chapter\s+\d+[:\.]?\s*(.+)$
    [atoms |-> <<Bol>> \o Lit(<<"C","h","a","p","t","e","r">>, TRUE)
               \o <<Plus(WhiteSpace), Plus(Digits), Opt({":", "."}), Star(WhiteSpace),
                    GOpen, Dot, GClose, Eol>>,
     level |-> 1, type |-> "chapter"],
    \* ^Section\s+\d+[:\.]?\s*(.+)$
    [atoms |-> <<Bol>> \o Lit(<<"S","e","c","t","i","o","n">>, TRUE)
               \o <<Plus(WhiteSpace), Plus(Digits), Opt({":", "."}), Star(WhiteSpace),
                    GOpen, Dot, GClose, Eol>>,
     level |-> 2, type |-> "section"],
    \* ^\d+\.\s+(.+)$
    [atoms |-> <<Bol, Plus(Digits), In({"."}), Plus(WhiteSpace), GOpen, Dot, GClose, Eol>>,
     level |-> 2, type |-> "section"],
    \* ^\d+\.\d+\s+(.+)$
    [atoms |-> <<Bol, Plus(Digits), In({"."}), Plus(Digits), Plus(WhiteSpace),
                 GOpen, Dot, GClose, Eol>>,
     level |-> 3, type |-> "subsection"] >>

PPTitleAccepted(title) == Len(title) > 2

RECURSIVE PPTopicsFrom(_, _, _)
PPTopicsFrom(lines, line_num, topic_id) ==
    IF line_num >= Len(lines) THEN <<>>
    ELSE LET line == Strip(lines[line_num + 1]) IN
      IF line = <<>> THEN PPTopicsFrom(lines, line_num + 1, topic_id)
      ELSE LET k == FirstMatching(PPHeadingPatterns, line, 1) IN
        IF k = 0 THEN PPTopicsFrom(lines, line_num + 1, topic_id)
        ELSE LET p == PPHeadingPatterns[k]
                 title == Strip(Group(ReMatch(p.atoms, line), line, 1))
             IN IF PPTitleAccepted(title)
                THEN <<[id |-> topic_id, title |-> title, type |-> p.type,
                        level |-> p.level, line_number |-> line_num + 1,
                        raw_text |-> line]>>
                     \o PPTopicsFrom(lines, line_num + 1, topic_id + 1)
                ELSE PPTopicsFrom(lines, line_num + 1, topic_id)

PPIdentifyTopics(t) == PPTopicsFrom(Split(t, <<"\n">>), 0, 1)

(***************************************************************************)
(* ContentAnalyzer._split_text_into_chunks                                 *)
(***************************************************************************)
CharsPerToken == 4

\* the estimate of the tokens of a text: len(text) // 4
EstimatedTokens(t) == Len(t) \div CharsPerToken

ParagraphSep == <<"\n", "\n">>
SentenceSep == <<".", " ">>

\* the loop over the sentences of a paragraph that is too long;
\* st = [chunks, current_chunk]
RECURSIVE SentenceLoop(_, _, _)
SentenceLoop(sentences, st, max_tokens) ==
    IF sentences = <<>> THEN st
    ELSE LET sentence == Head(sentences)
             next ==
               IF EstimatedTokens(st.current_chunk \o sentence) > max_tokens
               THEN IF st.current_chunk # <<>>
                    THEN [chunks |-> Append(st.chunks, st.current_chunk),
                          current_chunk |-> sentence]
                    ELSE [chunks |-> Append(st.chunks, sentence),
                          current_chunk |-> st.current_chunk]
               ELSE [chunks |-> st.chunks,
                     current_chunk |-> IF st.current_chunk # <<>>
                                       THEN st.current_chunk \o SentenceSep \o sentence
                                       ELSE sentence]
         IN SentenceLoop(Tail(sentences), next, max_tokens)

\* ParagraphLoop without the final append: the last chunk is forgotten
RECURSIVE ParagraphLoopNoFlush(_, _, _)
ParagraphLoopNoFlush(paragraphs, st, max_tokens) ==
    IF paragraphs = <<>> THEN st.chunks
    ELSE LET paragraph == Head(paragraphs)
             test_chunk == IF st.current_chunk # <<>>
                           THEN st.current_chunk \o ParagraphSep \o paragraph
                           ELSE paragraph
             next ==
               IF EstimatedTokens(test_chunk) > max_tokens
               THEN IF st.current_chunk # <<>>
                    THEN [chunks |-> Append(st.chunks, st.current_chunk),
                          current_chunk |-> paragraph]
                    ELSE SentenceLoop(Split(paragraph, SentenceSep), st, max_tokens)
               ELSE [chunks |-> st.chunks, current_chunk |-> test_chunk]
         IN ParagraphLoopNoFlush(Tail(paragraphs), next, max_tokens)

\* the loop over the paragraphs, and the append of the last chunk after it
RECURSIVE ParagraphLoop(_, _, _)
ParagraphLoop(paragraphs, st, max_tokens) ==
    IF paragraphs = <<>>
    THEN IF st.current_chunk # <<>> THEN Append(st.chunks, st.current_chunk)
         ELSE st.chunks
    ELSE LET paragraph == Head(paragraphs)
             test_chunk == IF st.current_chunk # <<>>
                           THEN st.current_chunk \o ParagraphSep \o paragraph
                           ELSE paragraph
             next ==
               IF EstimatedTokens(test_chunk) > max_tokens
               THEN IF st.current_chunk # <<>>
                    THEN [chunks |-> Append(st.chunks, st.current_chunk),
                          current_chunk |-> paragraph]
                    ELSE SentenceLoop(Split(paragraph, SentenceSep), st, max_tokens)
               ELSE [chunks |-> st.chunks, current_chunk |-> test_chunk]
         IN ParagraphLoop(Tail(paragraphs), next, max_tokens)

\* _split_text_into_chunks(text, max_tokens)
SplitTextIntoChunks(t, max_tokens) ==
    IF EstimatedTokens(t) <= max_tokens THEN <<t>>
    ELSE ParagraphLoop(Split(t, ParagraphSep),
                       [chunks |-> <<>>, current_chunk |-> <<>>], max_tokens)

(***************************************************************************)
(* ContentAnalyzer._merge_topics and _calculate_similarity                 *)
(***************************************************************************)
\* str.split(): the words between runs of whitespace
RECURSIVE SplitWordsFrom(_, _, _)
SplitWordsFrom(s, i, word) ==
    IF i > Len(s) THEN (IF word = <<>> THEN <<>> ELSE <<word>>)
    ELSE IF s[i] \in WhiteSpace
         THEN (IF word = <<>> THEN <<>> ELSE <<word>>) \o SplitWordsFrom(s, i + 1, <<>>)
         ELSE SplitWordsFrom(s, i + 1, Append(word, s[i]))

SplitWords(s) == SplitWordsFrom(s, 1, <<>>)

SeqToSet(s) == {s[k] : k \in DOMAIN s}

\* "similarity > 0.7" of _merge_topics on _calculate_similarity's quotient
\* len(intersection) / len(union), which is 0.0 when either word set is empty
SimilarityThresholdNum == 7
SimilarityThresholdDen == 10

\* the float 0.0, a float being the quotient num / den it was computed as
Zero == [num |-> 0, den |-> 1]

\* _calculate_similarity with the first word set as the divisor
CalculateSimilarityOverFirst(text1, text2) ==
    LET words1 == SeqToSet(SplitWords(text1))
        words2 == SeqToSet(SplitWords(text2))
    IN IF words1 = {} \/ words2 = {} THEN Zero
       ELSE [num |-> Cardinality(words1 \cap words2), den |-> Cardinality(words1)]

\* _calculate_similarity(text1, text2)
CalculateSimilarity(text1, text2) ==
    LET words1 == SeqToSet(SplitWords(text1))
        words2 == SeqToSet(SplitWords(text2))
    IN IF words1 = {} \/ words2 = {} THEN Zero
       ELSE [num |-> Cardinality(words1 \cap words2),
             den |-> Cardinality(words1 \cup words2)]

\* _calculate_similarity(text1, text2) > 0.7
SimilarityAbove(text1, text2) ==
    LET sim == CalculateSimilarity(text1, text2)
    IN SimilarityThresholdDen * sim.num > SimilarityThresholdNum * sim.den

\* FirstSimilar without the break: the last similar topic is the one found
RECURSIVE LastSimilar(_, _, _)
LastSimilar(merged_topics, ai_topic, k) ==
    IF k > Len(merged_topics) THEN 0
    ELSE LET later == LastSimilar(merged_topics, ai_topic, k + 1) IN
         IF later # 0 THEN later
         ELSE IF SimilarityAbove(Lower(ai_topic.title), Lower(merged_topics[k].title)) THEN k
         ELSE 0

\* the first topic of merged, at or after k, whose title is similar (0: none)
RECURSIVE FirstSimilar(_, _, _)
FirstSimilar(merged_topics, ai_topic, k) ==
    IF k > Len(merged_topics) THEN 0
    ELSE IF SimilarityAbove(Lower(ai_topic.title), Lower(merged_topics[k].title)) THEN k
    ELSE FirstSimilar(merged_topics, ai_topic, k + 1)

MinTitleLen == 3

\* MergeOne without the test on the title's length
MergeOneAnyTitle(merged_topics, ai_topic) ==
    LET k == FirstSimilar(merged_topics, ai_topic, 1) IN
    IF k # 0
    THEN [merged_topics EXCEPT ![k].keywords = merged_topics[k].keywords \cup ai_topic.keywords]
    ELSE Append(merged_topics, ai_topic)

\* MergeOne with the AI topic's title taken over by the topic it is merged into
MergeOneTakingTitle(merged_topics, ai_topic) ==
    LET k == FirstSimilar(merged_topics, ai_topic, 1) IN
    IF k # 0
    THEN [merged_topics EXCEPT ![k].keywords = merged_topics[k].keywords \cup ai_topic.keywords,
                               ![k].title = ai_topic.title]
    ELSE IF Len(ai_topic.title) > MinTitleLen THEN Append(merged_topics, ai_topic)
    ELSE merged_topics

\* the body of the loop over the AI topics; the keywords are a set
\* (list(set(..)) leaves them in no particular order)
MergeOne(merged_topics, ai_topic) ==
    LET k == FirstSimilar(merged_topics, ai_topic, 1) IN
    IF k # 0
    THEN [merged_topics EXCEPT ![k].keywords = merged_topics[k].keywords \cup ai_topic.keywords]
    ELSE IF Len(ai_topic.title) > MinTitleLen THEN Append(merged_topics, ai_topic)
    ELSE merged_topics

\* the merged list after each of the first n AI topics (entry n + 1)
RECURSIVE MergeTrace(_, _, _)
MergeTrace(structural_topics, ai_topics, n) ==
    IF n = 0 THEN <<structural_topics>>
    ELSE LET before == MergeTrace(structural_topics, ai_topics, n - 1) IN
         Append(before, MergeOne(before[n], ai_topics[n]))

\* _merge_topics(structural_topics, ai_topics)
MergeTopics(structural_topics, ai_topics) ==
    MergeTrace(structural_topics, ai_topics, Len(ai_topics))[Len(ai_topics) + 1]

(***************************************************************************)
(* ContentAnalyzer._enhance_formulas_with_ai and                           *)
(* _analyze_formula_batch_with_ai.  A raw formula is [id, latex, context]; *)
(* the reply of the enrichment service to a batch is                       *)
(*   [kind |-> "exception"]     the call raises                            *)
(*   [kind |-> "no_content"]    the message has no content                 *)
(*   [kind |-> "no_json"]       the content holds no {...}                 *)
(*   [kind |-> "invalid_json"]  the {...} of the content is not JSON       *)
(*   [kind |-> "json", entries |-> ..]  the entries of data['formulas'],   *)
(* an entry being [has_id, id, has_fields, topic_id]: with has_fields it   *)
(* carries name, type, topic_id, explanation and applications, topic_id    *)
(* being the identifier the reply names.                                   *)
(***************************************************************************)
BatchSize == 5

GenericName(n) == <<"Formula", n>>

\* topics[0].id if topics else "unknown"
DefaultTopicId(topic_ids) == IF topic_ids # <<>> THEN topic_ids[1] ELSE "unknown"

\* the basic Formula of the except branch of _enhance_formulas_with_ai
FallbackFormula(formula_data, enhanced_formulas, topic_ids) ==
    [id |-> formula_data.id,
     name |-> GenericName(Len(enhanced_formulas) + 1),
     latex |-> formula_data.latex,
     type |-> "equation",
     topic_id |-> DefaultTopicId(topic_ids),
     derivation |-> "",
     applications |-> <<>>,
     context |-> formula_data.context,
     page_number |-> 1]

\* next((f for f in formulas if f['id'] == formula_data['id']), None): its index, or 0
RECURSIVE OriginalOf(_, _, _)
OriginalOf(batch, id, k) ==
    IF k > Len(batch) THEN 0
    ELSE IF batch[k].id = id THEN k
    ELSE OriginalOf(batch, id, k + 1)

\* the Formula built from an entry of the reply
EnhancedFormula(entry, original, enhanced_formulas, topic_ids) ==
    [id |-> entry.id,
     name |-> IF entry.has_fields THEN <<"ai_name">>
              ELSE GenericName(Len(enhanced_formulas) + 1),
     latex |-> original.latex,
     type |-> IF entry.has_fields THEN "theorem" ELSE "equation",
     topic_id |-> IF entry.has_fields THEN entry.topic_id ELSE DefaultTopicId(topic_ids),
     derivation |-> IF entry.has_fields THEN "ai_explanation" ELSE "",
     applications |-> IF entry.has_fields THEN <<"ai_application">> ELSE <<>>,
     context |-> original.context,
     page_number |-> 1]

\* the loop over data.get('formulas', []); an entry without 'id' raises
\* KeyError, which the except of the parse swallows: the formulas built so
\* far are returned
RECURSIVE ParseEntries(_, _, _, _)
ParseEntries(entries, batch, topic_ids, enhanced_formulas) ==
    IF entries = <<>> THEN enhanced_formulas
    ELSE LET entry == Head(entries) IN
         IF ~entry.has_id THEN enhanced_formulas
         ELSE LET k == OriginalOf(batch, entry.id, 1) IN
              IF k = 0
              THEN ParseEntries(Tail(entries), batch, topic_ids, enhanced_formulas)
              ELSE ParseEntries(Tail(entries), batch, topic_ids,
                     Append(enhanced_formulas,
                            EnhancedFormula(entry, batch[k], enhanced_formulas, topic_ids)))

\* _analyze_formula_batch_with_ai: [raised, formulas]
AnalyzeFormulaBatchWithAI(batch, topic_ids, reply) ==
    IF reply.kind = "exception" THEN [raised |-> TRUE, formulas |-> <<>>]
    ELSE IF reply.kind = "json"
    THEN [raised |-> FALSE,
          formulas |-> ParseEntries(reply.entries, batch, topic_ids, <<>>)]
    ELSE [raised |-> FALSE, formulas |-> <<>>]

\* the fallback loop over the formulas of a batch
RECURSIVE FallbackBatch(_, _, _)
FallbackBatch(batch, enhanced_formulas, topic_ids) ==
    IF batch = <<>> THEN enhanced_formulas
    ELSE FallbackBatch(Tail(batch),
                       Append(enhanced_formulas,
                              FallbackFormula(Head(batch), enhanced_formulas, topic_ids)),
                       topic_ids)

\* raw_formulas[i:i + batch_size] of batch b = i // batch_size
BatchOf(raw_formulas, b) ==
    SubSeq(raw_formulas, b * BatchSize + 1, Min((b + 1) * BatchSize, Len(raw_formulas)))

NumBatches(n) == (n + BatchSize - 1) \div BatchSize

\* the loop over the batches, from batch b on
RECURSIVE EnhanceFrom(_, _, _, _, _)
EnhanceFrom(raw_formulas, topic_ids, batch_replies, b, enhanced_formulas) ==
    IF b >= NumBatches(Len(raw_formulas)) THEN enhanced_formulas
    ELSE LET batch == BatchOf(raw_formulas, b)
             res == AnalyzeFormulaBatchWithAI(batch, topic_ids, batch_replies[b + 1])
         IN EnhanceFrom(raw_formulas, topic_ids, batch_replies, b + 1,
                        IF res.raised
                        THEN FallbackBatch(batch, enhanced_formulas, topic_ids)
                        ELSE enhanced_formulas \o res.formulas)

\* _enhance_formulas_with_ai(raw_formulas, text, topics)
EnhanceFormulasWithAI(raw_formulas, topic_ids, batch_replies) ==
    EnhanceFrom(raw_formulas, topic_ids, batch_replies, 0, <<>>)

\* topic_formulas.get(topic_id, []) of NotesAgent._create_structured_notes:
\* the formulas grouped under a topic id, in their order
TopicFormulas(fs, topic_id) ==
    LET OfTopic(formula) == formula.topic_id = topic_id
    IN SelectSeq(fs, OfTopic)

\* NotesAgent._create_structured_notes(topics, formulas, filename): one
\* section for each topic, in the order of the topics
CreateStructuredNotes(topic_ids, fs) ==
    [idx \in DOMAIN topic_ids |->
        [order |-> idx,
         topic_id |-> topic_ids[idx],
         formulas |-> TopicFormulas(fs, topic_ids[idx])]]

(***************************************************************************)
(* PracticalNotesProcessor._extract_all_formulas.  The square-root sign is *)
(* written "SQRT".  A candidate carries the offset of its match (start),   *)
(* which the returned dictionaries do not hold.                            *)
(***************************************************************************)
\* the latex patterns are used with re.DOTALL
RNLatexPatterns == <<
    \* \$\$([^$]+)\$\$
    <<In({"$"}), In({"$"}), GOpen, NotPlus({"$"}), GClose, In({"$"}), In({"$"})>>,
    \* \$([^$\n]{3,40})\$
    <<In({"$"}), GOpen, Atom("rep", {"$", "\n"}, TRUE, 3, 40, TRUE), GClose, In({"$"})>>,
    EnvPattern(EnvEquation),
    EnvPattern(EnvAlign) >>

\* the expression patterns are used with re.IGNORECASE
RNMathPatterns == <<
    \* ([A-Za-z_]\w*\s*=\s*[^,\.\n]{5,60})
    <<GOpen, In(IdentStart), Star(WordChars), Star(WhiteSpace), In({"="}),
      Star(WhiteSpace), Atom("rep", MathStop, TRUE, 5, 60, TRUE), GClose>>,
    \* ([∫∑∏∂√][^,\.\n]{3,60})
    <<GOpen, In({"INT", "SUM", "PROD", "PARTIAL", "SQRT"}),
      Atom("rep", MathStop, TRUE, 3, 60, TRUE), GClose>>,
    \* ([A-Za-z_]\w*\([^)]+\)\s*=\s*[^,\.\n]{3,60})
    <<GOpen, In(IdentStart), Star(WordChars), In({"("}), NotPlus({")"}), In({")"}),
      Star(WhiteSpace), In({"="}), Star(WhiteSpace),
      Atom("rep", MathStop, TRUE, 3, 60, TRUE), GClose>> >>

RNContextRadius == 150

\* _get_context(content, start, end)
RNGetContext(content, start, end) ==
    LET context_start == Max(0, start - RNContextRadius)
        context_end == Min(Len(content), end + RNContextRadius)
        context == ReplaceChar(Slice(content, context_start, context_end), "\n", " ")
    IN Join(SplitWords(context), <<" ">>)

RNInvalidPatterns == <<
    \* ^[0-9]+$
    <<Bol, Plus(Digits), Eol>>,
    \* ^[A-Za-z]+\s*=\s*[A-Za-z]+$
    <<Bol, Plus(Letters), Star(WhiteSpace), In({"="}), Star(WhiteSpace), Plus(Letters), Eol>>,
    \* page\s*=\s*\d+
    Lit(<<"p","a","g","e">>, FALSE) \o
        <<Star(WhiteSpace), In({"="}), Star(WhiteSpace), Plus(Digits)>>,
    \* chapter\s*=
    Lit(<<"c","h","a","p","t","e","r">>, FALSE) \o <<Star(WhiteSpace), In({"="})>> >>

RNMathIndicators == {"=", "+", "-", "*", "/", "^", "INT", "SUM", "PARTIAL", "SQRT", "(", ")"}

\* _is_valid_formula(formula)
RNIsValidFormula(formula) ==
    /\ \A k \in DOMAIN RNInvalidPatterns : ~ReMatch(RNInvalidPatterns[k], Lower(formula)).ok
    /\ \E k \in DOMAIN formula : formula[k] \in RNMathIndicators

RNKeep(type, formula_text) ==
    IF type = "latex" THEN Len(formula_text) > 2 ELSE RNIsValidFormula(formula_text)

RECURSIVE RNPatternCandidates(_, _, _)
RNPatternCandidates(ms, content, type) ==
    IF ms = <<>> THEN <<>>
    ELSE LET m == Head(ms)
             formula_text == Strip(Group(m, content, 1))
         IN (IF RNKeep(type, formula_text)
             THEN <<[type |-> type, content |-> formula_text,
                     context |-> RNGetContext(content, m.start - 1, m.end - 1),
                     start |-> m.start - 1]>>
             ELSE <<>>) \o RNPatternCandidates(Tail(ms), content, type)

RECURSIVE RNLatexCandidatesFrom(_, _)
RNLatexCandidatesFrom(k, content) ==
    IF k > Len(RNLatexPatterns) THEN <<>>
    ELSE RNPatternCandidates(FindIter(RNLatexPatterns[k], content, FALSE), content, "latex")
         \o RNLatexCandidatesFrom(k + 1, content)

RECURSIVE RNMathCandidatesFrom(_, _)
RNMathCandidatesFrom(k, content) ==
    IF k > Len(RNMathPatterns) THEN <<>>
    ELSE RNPatternCandidates(FindIter(RNMathPatterns[k], content, FALSE), content, "expression")
         \o RNMathCandidatesFrom(k + 1, content)

\* the candidates in the order the code appends them
RNCandidates(content) == RNLatexCandidatesFrom(1, content) \o RNMathCandidatesFrom(1, content)

RNMinNormalized == 3

RECURSIVE RNDedup(_, _)
RNDedup(fs, seen) ==
    IF fs = <<>> THEN <<>>
    ELSE LET normalized == RemoveChars(Lower(Head(fs).content), WhiteSpace) IN
         IF normalized \notin seen /\ Len(normalized) > RNMinNormalized
         THEN <<Head(fs)>> \o RNDedup(Tail(fs), seen \cup {normalized})
         ELSE RNDedup(Tail(fs), seen)

\* the dictionary the code builds: type, content and context
RNFormula(c) == [type |-> c.type, content |-> c.content, context |-> c.context]

RNExtractAllFormulas(content) ==
    LET unique_formulas == RNDedup(RNCandidates(content), {})
    IN [k \in DOMAIN unique_formulas |-> RNFormula(unique_formulas[k])]

(***************************************************************************)
(* The text operations: one input text, and one of the operations applied  *)
(* to it.                                                                  *)
(***************************************************************************)
MaxTokens == 3

\* the pieces the input texts are made of
FormulaTokens == {
    <<"$">>,
    <<"\n">>,
    <<"v","=","a","b"," ","c","d">>,
    <<"v","=","a","b","\t","c","d">>,
    <<"V","=","A","B","C","D">>,
    <<"1","2","3">> }

HeadingTokens == {
    <<"C","h","a","p","t","e","r"," ","1",":"," ","A","b","c","\n">>,
    <<"1","."," ","A","b","c","d","\n">>,
    <<"1",".","1"," ","A","b","c","\n">>,
    <<"#"," ","A","b","c","\n">>,
    <<"#","#"," ","a","b","\n">>,
    <<"a","b","c","d"," ","a","b","c","d","\n">>,
    <<"-","-","-"," ","P","a","g","e"," ","2"," ","-","-","-","\n">> }

RECURSIVE TokenSeqs(_, _)
TokenSeqs(tokens, n) ==
    IF n = 0 THEN {<<>>}
    ELSE LET shorter == TokenSeqs(tokens, n - 1) IN
         shorter \cup {Append(ts, tok) : ts \in {x \in shorter : Len(x) = n - 1},
                                         tok \in tokens}

\* the segmenter's worked example:
\* "Chapter 1: Waves\nWaves are periodic.\n\nSection 1.1 Frequency\n
\*  Frequency is cycles per second."
SegmenterExample ==
    <<"C","h","a","p","t","e","r"," ","1",":"," ","W","a","v","e","s","\n",
      "W","a","v","e","s"," ","a","r","e"," ","p","e","r","i","o","d","i",
      "c",".","\n","\n","S","e","c","t","i","o","n"," ","1",".","1"," ","F",
      "r","e","q","u","e","n","c","y","\n","F","r","e","q","u","e","n","c",
      "y"," ","i","s"," ","c","y","c","l","e","s"," ","p","e","r"," ","s",
      "e","c","o","n","d",".">>

\* the extractor's worked example: "The law states: $$F = ma$$ and also $F=ma$"
ExtractorExample ==
    <<"T","h","e"," ","l","a","w"," ","s","t","a","t","e","s",":"," ","$",
      "$","F"," ","="," ","m","a","$","$"," ","a","n","d"," ","a","l","s",
      "o"," ","$","F","=","m","a","$">>

\* a heading followed by a line that starts like a heading but matches no
\* heading rule: "Chapter 1: Abc\nabcd abcd\nSections abc\nabcd abcd"
ContentExample ==
    <<"C","h","a","p","t","e","r"," ","1",":"," ","A","b","c","\n",
      "a","b","c","d"," ","a","b","c","d","\n",
      "S","e","c","t","i","o","n","s"," ","a","b","c","\n",
      "a","b","c","d"," ","a","b","c","d">>

\* an equation written twice, first as plain text and then as an inline
\* formula: "v=ab cd\n$V=AB CD$"
RepeatedExample ==
    <<"v","=","a","b"," ","c","d","\n","$","V","=","A","B"," ","C","D","$">>

ExampleTexts == {SegmenterExample, ExtractorExample, ContentExample, RepeatedExample}

\* the input texts: up to MaxTokens formula pieces, or up to MaxTokens lines,
\* and the worked examples
Texts ==
    {Flatten(ts) : ts \in TokenSeqs(FormulaTokens, MaxTokens)}
    \cup {Flatten(ts) : ts \in TokenSeqs(HeadingTokens, MaxTokens)}
    \cup ExampleTexts

\* the variables of the operations a specification does not exercise
ExtractIdle == formulas = <<>> /\ topics = <<>> /\ topics_again = <<>>
ChunkIdle == token_budget = 0 /\ chunks = <<>>
MergeIdle == structural = <<>> /\ candidates = <<>> /\ merged = <<>>
EnrichIdle == raw = <<>> /\ enrich_topics = <<>> /\ replies = <<>> /\ enhanced = <<>>
JobsIdle ==
    /\ active_jobs = <<>>
    /\ results_cache = <<>>
    /\ agent_state = <<>>
    /\ task_pc = <<>>
    /\ task_file_path = <<>>
WebIdle == processing_jobs = <<>> /\ processor = <<>> /\ web_pc = <<>>
KeywordsIdle == keywords = <<>>
SimilarityIdle == sim_text1 = <<>> /\ sim_text2 = <<>> /\ similarity = <<>>
CleanupIdle == now = 0 /\ max_age_hours = 0
ResponseIdle == response = <<>>

NotesIdle == sections = <<>>

TextInit ==
    /\ text \in Texts
    /\ op = "none"
    /\ formulas = <<>>
    /\ topics = <<>>
    /\ topics_again = <<>>
    /\ ChunkIdle /\ MergeIdle /\ EnrichIdle /\ JobsIdle /\ WebIdle /\ KeywordsIdle /\ SimilarityIdle /\ CleanupIdle /\ ResponseIdle /\ NotesIdle

\* ContentAnalyzer._extract_formulas_by_pattern(text)
CAExtractFormulas ==
    /\ op = "none"
    /\ op' = "ca_extract_formulas"
    /\ formulas' = CAExtractFormulasByPattern(text)
    /\ UNCHANGED <<text, topics, topics_again, chunkVars, mergeVars, enrichVars, jobVars, webVars, kwVars, simVars, cleanupVars, respVars, notesVars>>

\* PDFParser.extract_formulas(text)
PPExtract ==
    /\ op = "none"
    /\ op' = "pp_extract_formulas"
    /\ formulas' = PPExtractFormulas(text)
    /\ UNCHANGED <<text, topics, topics_again, chunkVars, mergeVars, enrichVars, jobVars, webVars, kwVars, simVars, cleanupVars, respVars, notesVars>>

\* ContentAnalyzer._identify_structural_topics(text)
CAIdentifyTopics ==
    /\ op = "none"
    /\ op' = "ca_identify_topics"
    /\ topics' = CAIdentifyStructuralTopics(text)
    /\ UNCHANGED <<text, formulas, topics_again, chunkVars, mergeVars, enrichVars, jobVars, webVars, kwVars, simVars, cleanupVars, respVars, notesVars>>

\* PDFParser.identify_topics(text)
PPIdentify ==
    /\ op = "none"
    /\ op' = "pp_identify_topics"
    /\ topics' = PPIdentifyTopics(text)
    /\ UNCHANGED <<text, formulas, topics_again, chunkVars, mergeVars, enrichVars, jobVars, webVars, kwVars, simVars, cleanupVars, respVars, notesVars>>

\* a call of _identify_structural_topics(text) made after an earlier call
\* returned earlier_topics: the list starts empty (topics = []) and nothing
\* of the earlier call is kept
CAIdentifyStructuralTopicsAfter(earlier_topics, t) == CAIdentifyStructuralTopics(t)

\* ContentAnalyzer._identify_structural_topics(text), called a second time on
\* the same text
CAIdentifyTopicsAgain ==
    /\ op = "ca_identify_topics"
    /\ op' = "ca_identify_topics_twice"
    /\ topics_again' = CAIdentifyStructuralTopicsAfter(topics, text)
    /\ UNCHANGED <<text, formulas, topics, chunkVars, mergeVars, enrichVars, jobVars, webVars, kwVars, simVars, cleanupVars, respVars, notesVars>>

\* PracticalNotesProcessor._extract_all_formulas(text)
RNExtract ==
    /\ op = "none"
    /\ op' = "rn_extract_formulas"
    /\ formulas' = RNExtractAllFormulas(text)
    /\ UNCHANGED <<text, topics, topics_again, chunkVars, mergeVars, enrichVars, jobVars, webVars, kwVars, simVars, cleanupVars, respVars, notesVars>>

TextNext ==
    \/ CAExtractFormulas \/ PPExtract \/ CAIdentifyTopics \/ PPIdentify \/ CAIdentifyTopicsAgain
    \/ RNExtract

SpecText == TextInit /\ [][TextNext]_vars

(***************************************************************************)
(* The keyword extraction: one content text, its keywords extracted once.  *)
(***************************************************************************)
MaxWords == 4

\* the words the content texts are made of: two ordinary words, one of them
\* also capitalised, a word of three letters, and two stop words
KeywordWords == {
    <<"a","b","c","d">>,
    <<"A","b","c","d">>,
    <<"w","x","y","z">>,
    <<"a","b","c">>,
    <<"t","h","e">>,
    <<"p","a","g","e">> }

\* a content of eleven words, each twice, and the last of them a third time
ManyKeywordsExample ==
    Join([k \in 1..22 |->
            LET c == <<"a","b","c","d","e","f","g","h","i","j","k">>[((k - 1) % 11) + 1]
            IN <<c, c, c, c>>],
         <<" ">>) \o <<" ","k","k","k","k">>

KeywordTexts ==
    {Join(ws, <<" ">>) : ws \in TokenSeqs(KeywordWords, MaxWords)} \cup {ManyKeywordsExample}

KeywordsInit ==
    /\ text \in KeywordTexts
    /\ op = "none"
    /\ keywords = <<>>
    /\ ExtractIdle /\ ChunkIdle /\ MergeIdle /\ EnrichIdle /\ JobsIdle /\ WebIdle /\ SimilarityIdle /\ CleanupIdle /\ ResponseIdle /\ NotesIdle

\* ContentAnalyzer._extract_keywords(text)
ExtractKeywordsOf ==
    /\ op = "none"
    /\ op' = "extract_keywords"
    /\ keywords' = ExtractKeywords(text)
    /\ UNCHANGED <<text, extractVars, chunkVars, mergeVars, enrichVars, jobVars, webVars, simVars, cleanupVars, respVars, notesVars>>

KeywordsNext == ExtractKeywordsOf

SpecKeywords == KeywordsInit /\ [][KeywordsNext]_vars

(***************************************************************************)
(* The similarity: two titles, compared once.                              *)
(***************************************************************************)
MaxSimTokens == 4

\* the pieces the titles are made of: two words' letters and the blank
SimTokens == {<<"a">>, <<"b">>, <<" ">>}

SimTexts == {Flatten(ts) : ts \in TokenSeqs(SimTokens, MaxSimTokens)}

SimilarityInit ==
    /\ sim_text1 \in SimTexts
    /\ sim_text2 \in SimTexts
    /\ similarity = <<>>
    /\ text = <<>>
    /\ op = "none"
    /\ ExtractIdle /\ ChunkIdle /\ MergeIdle /\ EnrichIdle /\ JobsIdle /\ WebIdle /\ KeywordsIdle /\ CleanupIdle /\ ResponseIdle /\ NotesIdle

\* ContentAnalyzer._calculate_similarity(sim_text1, sim_text2)
Similarity ==
    /\ op = "none"
    /\ op' = "calculate_similarity"
    /\ similarity' = CalculateSimilarity(sim_text1, sim_text2)
    /\ UNCHANGED <<text, sim_text1, sim_text2, extractVars, chunkVars, mergeVars, enrichVars,
                   jobVars, webVars, kwVars, cleanupVars, respVars, notesVars>>

SimilarityNext == Similarity

SpecSimilarity == SimilarityInit /\ [][SimilarityNext]_vars

(***************************************************************************)
(* The chunker: one text and one budget, split once.                       *)
(***************************************************************************)
MaxChunkText == 6
MaxBudget == 1

ChunkAlphabet == {"a", ".", " ", "\n"}

RECURSIVE StringsUpTo(_, _)
StringsUpTo(alphabet, n) ==
    IF n = 0 THEN {<<>>}
    ELSE LET shorter == StringsUpTo(alphabet, n - 1) IN
         shorter \cup {Append(x, c) : x \in {y \in shorter : Len(y) = n - 1},
                                      c \in alphabet}

\* the chunker's worked example: "A. B. C."
ChunkerExample == <<"A", ".", " ", "B", ".", " ", "C", ".">>

ChunkInit ==
    /\ text \in StringsUpTo(ChunkAlphabet, MaxChunkText) \cup {ChunkerExample}
    /\ token_budget \in 0..MaxBudget
    /\ op = "none"
    /\ chunks = <<>>
    /\ ExtractIdle /\ MergeIdle /\ EnrichIdle /\ JobsIdle /\ WebIdle /\ KeywordsIdle /\ SimilarityIdle /\ CleanupIdle /\ ResponseIdle /\ NotesIdle

\* ContentAnalyzer._split_text_into_chunks(text, max_tokens)
SplitIntoChunks ==
    /\ op = "none"
    /\ op' = "split_text_into_chunks"
    /\ chunks' = SplitTextIntoChunks(text, token_budget)
    /\ UNCHANGED <<text, token_budget, extractVars, mergeVars, enrichVars, jobVars, webVars, kwVars, simVars, cleanupVars, respVars, notesVars>>

ChunkNext == SplitIntoChunks

SpecChunk == ChunkInit /\ [][ChunkNext]_vars

(***************************************************************************)
(* The merger: a structural list and a candidate list, merged once.  A     *)
(* topic of the structural list has the id i of its place, a candidate the *)
(* id -i.                                                                  *)
(***************************************************************************)
MaxStructural == 2
MaxCandidates == 2

MergeTitles == {
    <<"w","a","v","e"," ","f","n">>,
    <<"W","a","v","e"," ","F","n">>,
    <<"a"," ","b"," ","c"," ","d"," ","e"," ","f"," ","g"," ","h"," ","i"," ","j">>,
    <<"a"," ","b"," ","c"," ","d"," ","e"," ","f"," ","g">>,
    <<"a","b","c">>,
    <<>> }

\* the topic lists with the given titles
StructuralTopicsOf(titles) ==
    [k \in DOMAIN titles |->
        [id |-> k, title |-> titles[k], type |-> "section", level |-> 2,
         parent_id |-> None, content |-> <<>>, page_range |-> <<1, 1>>,
         keywords |-> {<<"s", k>>, <<"common">>}]]

CandidateTopicsOf(titles) ==
    [k \in DOMAIN titles |->
        [id |-> 0 - k, title |-> titles[k], type |-> "concept", level |-> 2,
         parent_id |-> None, content |-> <<>>, page_range |-> <<1, 1>>,
         keywords |-> {<<"c", k>>, <<"common">>}]]

MergeInit ==
    /\ structural \in {StructuralTopicsOf(ts) : ts \in TokenSeqs(MergeTitles, MaxStructural)}
    /\ candidates \in {CandidateTopicsOf(ts) : ts \in TokenSeqs(MergeTitles, MaxCandidates)}
    /\ merged = <<>>
    /\ op = "none"
    /\ text = <<>>
    /\ ExtractIdle /\ ChunkIdle /\ EnrichIdle /\ JobsIdle /\ WebIdle /\ KeywordsIdle /\ SimilarityIdle /\ CleanupIdle /\ ResponseIdle /\ NotesIdle

\* ContentAnalyzer._merge_topics(structural_topics, ai_topics); merged keeps
\* the list after each candidate, the last entry being the list returned
Merge ==
    /\ op = "none"
    /\ op' = "merge_topics"
    /\ merged' = MergeTrace(structural, candidates, Len(candidates))
    /\ UNCHANGED <<text, structural, candidates, extractVars, chunkVars, enrichVars, jobVars, webVars, kwVars, simVars, cleanupVars, respVars, notesVars>>

MergeNext == Merge

SpecMerge == MergeInit /\ [][MergeNext]_vars

(***************************************************************************)
(* The enrichment: a list of raw formulas, a topic list and the reply the  *)
(* service gives to each batch, enhanced once.                             *)
(***************************************************************************)
MaxRaw == 6
MaxEntries == 2

RawFormulas(n) ==
    [k \in 1..n |-> [id |-> k, latex |-> <<"latex", k>>, context |-> <<"context", k>>]]

\* the topic_id a reply may name: that of a supplied topic, or another
ReplyTopicIds == {"topic_2", "topic_9"}

\* the entries a reply to a batch may hold: for the first formula of the
\* batch or for an id that is not of the batch, with or without the fields,
\* or without an id
EntriesFor(batch) ==
    [has_id : {TRUE}, id : {batch[1].id, 0}, has_fields : {TRUE}, topic_id : ReplyTopicIds]
    \cup [has_id : {TRUE}, id : {batch[1].id, 0}, has_fields : {FALSE}, topic_id : {""}]
    \cup {[has_id |-> FALSE, id |-> 0, has_fields |-> TRUE, topic_id |-> "topic_2"]}

\* an entry with all the fields for every formula of the batch
CompleteEntries(batch) ==
    [k \in DOMAIN batch |->
        [has_id |-> TRUE, id |-> batch[k].id, has_fields |-> TRUE, topic_id |-> "topic_2"]]

RepliesTo(batch) ==
    {[kind |-> k] : k \in {"exception", "no_content", "no_json", "invalid_json"}}
    \cup {[kind |-> "json", entries |-> es] :
            es \in TokenSeqs(EntriesFor(batch), MaxEntries) \cup {CompleteEntries(batch)}}

\* the reply sequences: one reply for each batch
RECURSIVE ReplySeqs(_, _)
ReplySeqs(raw_formulas, b) ==
    IF b = 0 THEN {<<>>}
    ELSE {Append(rs, r) : rs \in ReplySeqs(raw_formulas, b - 1),
                          r \in RepliesTo(BatchOf(raw_formulas, b - 1))}

EnrichInit ==
    /\ \E n \in 0..MaxRaw :
          /\ raw = RawFormulas(n)
          /\ replies \in ReplySeqs(RawFormulas(n), NumBatches(n))
    /\ enrich_topics \in {<<>>, <<"topic_1", "topic_2">>}
    /\ enhanced = <<>>
    /\ op = "none"
    /\ text = <<>>
    /\ ExtractIdle /\ ChunkIdle /\ MergeIdle /\ JobsIdle /\ WebIdle /\ KeywordsIdle /\ SimilarityIdle /\ CleanupIdle /\ ResponseIdle /\ NotesIdle

\* ContentAnalyzer._enhance_formulas_with_ai(raw_formulas, text, topics)
Enhance ==
    /\ op = "none"
    /\ op' = "enhance_formulas_with_ai"
    /\ enhanced' = EnhanceFormulasWithAI(raw, enrich_topics, replies)
    /\ UNCHANGED <<text, raw, enrich_topics, replies, extractVars, chunkVars, mergeVars, jobVars, webVars, kwVars, simVars, cleanupVars, respVars, notesVars>>

\* NotesAgent._generate_notes_node on the topics and the formulas of the
\* state; without topics or without formulas it raises before the notes
GenerateNotes ==
    /\ op = "enhance_formulas_with_ai"
    /\ enrich_topics # <<>>
    /\ enhanced # <<>>
    /\ op' = "create_structured_notes"
    /\ sections' = CreateStructuredNotes(enrich_topics, enhanced)
    /\ UNCHANGED <<text, enrichVars, extractVars, chunkVars, mergeVars, jobVars, webVars, kwVars, simVars, cleanupVars, respVars>>

EnrichNext == Enhance \/ GenerateNotes

SpecEnrich == EnrichInit /\ [][EnrichNext]_vars

(***************************************************************************)
(* The document-processing workflow and its job manager.  A file path is   *)
(* [exists, suffix]; of a list of the AgentState only the size (0: empty)  *)
(* is kept, of pdf_content and notes only whether they are set.  An error  *)
(* message is <<what failed, the exception>>.                              *)
(***************************************************************************)
MaxJobs == 2

Jobs == 1..MaxJobs

Suffixes == {<<".","p","d","f">>, <<".","P","D","F">>, <<".","t","x","t">>}

FilePaths == [exists : BOOLEAN, suffix : Suffixes]

ListSizes == {0, 1}

NoError == <<>>

\* PDFParser.supported_formats
SupportedFormats == {<<".","p","d","f">>}

\* ParsePdf with the two tests in the other order
ParsePdfSuffixFirst(file_path, readable) ==
    IF Lower(file_path.suffix) \notin SupportedFormats
    THEN [raised |-> "ValueError", pdf_content |-> FALSE]
    ELSE IF ~file_path.exists
    THEN [raised |-> "FileNotFoundError", pdf_content |-> FALSE]
    ELSE IF ~readable THEN [raised |-> "Exception", pdf_content |-> FALSE]
    ELSE [raised |-> "none", pdf_content |-> TRUE]

\* PDFParser.parse_pdf(file_path): the exception raised ("none": it returns)
\* and whether a PDFContent is returned; readable tells whether the
\* extraction of an existing .pdf file succeeds (its exception is re-raised)
ParsePdf(file_path, readable) ==
    IF ~file_path.exists
    THEN [raised |-> "FileNotFoundError", pdf_content |-> FALSE]
    ELSE IF Lower(file_path.suffix) \notin SupportedFormats
    THEN [raised |-> "ValueError", pdf_content |-> FALSE]
    ELSE IF ~readable THEN [raised |-> "Exception", pdf_content |-> FALSE]
    ELSE [raised |-> "none", pdf_content |-> TRUE]

\* AgentState(current_step="start", metadata=...)
InitialAgentState ==
    [pdf_content |-> FALSE, topics |-> 0, formulas |-> 0, exercises |-> 0,
     notes |-> FALSE, current_step |-> "start", error |-> NoError]

\* dict assignment d[k] = v
Put(d, k, v) == [x \in DOMAIN d \cup {k} |-> IF x = k THEN v ELSE d[x]]

\* del d[k]
Del(d, k) == [x \in DOMAIN d \ {k} |-> d[x]]

\* AgentManager._update_job_status
UpdateJobStatus(jobs, job_id, status, progress, current_step) ==
    IF job_id \in DOMAIN jobs
    THEN [jobs EXCEPT ![job_id] = [@ EXCEPT !.status = status, !.progress = progress,
                                            !.current_step = current_step]]
    ELSE jobs

\* the ProcessingResult of AgentManager._handle_processing_error
FailedResult(error_message) ==
    [status |-> "failed", progress |-> 0, message |-> "Processing failed",
     has_notes_id |-> FALSE, error |-> error_message]

\* the ProcessingResult of a run without error
CompletedResult(notes) ==
    [status |-> "completed", progress |-> 100,
     message |-> "Processing completed successfully",
     has_notes_id |-> notes, error |-> NoError]

\* the entry of active_jobs after _handle_processing_error
MarkFailed(jobs, job_id, error_message) ==
    IF job_id \in DOMAIN jobs
    THEN [jobs EXCEPT ![job_id] = [@ EXCEPT !.status = "failed", !.error = error_message]]
    ELSE jobs

\* NodeResult whose try block, when it succeeds, resets the error
NodeResultClearing(j, step, ok, fields, failure) ==
    LET s == [agent_state[j] EXCEPT !.current_step = step] IN
    IF ok THEN fields @@ [s EXCEPT !.error = NoError] ELSE [s EXCEPT !.error = failure]

\* a node's result: it sets current_step, then either the fields or the error
NodeResult(j, step, ok, fields, failure) ==
    LET s == [agent_state[j] EXCEPT !.current_step = step] IN
    IF ok THEN fields @@ s ELSE [s EXCEPT !.error = failure]

Goto(j, next_pc, new_state) ==
    /\ task_pc' = [task_pc EXCEPT ![j] = next_pc]
    /\ agent_state' = [agent_state EXCEPT ![j] = new_state]
    /\ UNCHANGED <<active_jobs, results_cache, task_file_path>>

JobsInit ==
    /\ active_jobs = <<>>
    /\ results_cache = <<>>
    /\ agent_state = <<>>
    /\ task_pc = [j \in Jobs |-> "unstarted"]
    /\ task_file_path = <<>>
    /\ text = <<>>
    /\ op = "none"
    /\ ExtractIdle /\ ChunkIdle /\ MergeIdle /\ EnrichIdle /\ WebIdle /\ KeywordsIdle /\ SimilarityIdle /\ CleanupIdle /\ ResponseIdle /\ NotesIdle

\* AgentManager.start_processing(file_path, filename): job ids are fresh
StartProcessing(j, file_path) ==
    /\ task_pc[j] = "unstarted"
    /\ \A i \in Jobs : i < j => task_pc[i] # "unstarted"
    /\ active_jobs' = Put(active_jobs, j,
                          [status |-> "pending", progress |-> 0,
                           current_step |-> "initializing", error |-> NoError])
    /\ task_file_path' = Put(task_file_path, j, file_path)
    /\ task_pc' = [task_pc EXCEPT ![j] = "created"]
    /\ UNCHANGED <<results_cache, agent_state>>

\* AgentManager._process_pdf_async up to the workflow's first node, with the
\* initial state of NotesAgent.process_pdf; when NotesAgent(...) raises
\* (constructed is FALSE) the except and finally clauses end the task
BeginProcessing(j, constructed) ==
    /\ task_pc[j] = "created"
    /\    LET initializing == UpdateJobStatus(active_jobs, j, "processing", 10,
                                              "Initializing agent")
              error_message == <<"NotesAgent", "Exception">>
          IN IF constructed
             THEN /\ active_jobs' = UpdateJobStatus(initializing, j, "processing", 15,
                                                    "Starting PDF processing")
                  /\ agent_state' = Put(agent_state, j, InitialAgentState)
                  /\ task_pc' = [task_pc EXCEPT ![j] = "parse_pdf"]
                  /\ UNCHANGED results_cache
             ELSE /\ results_cache' = Put(results_cache, j, FailedResult(error_message))
                  /\ active_jobs' = Del(MarkFailed(initializing, j, error_message), j)
                  /\ task_pc' = [task_pc EXCEPT ![j] = "done"]
                  /\ UNCHANGED agent_state
    /\ UNCHANGED task_file_path

\* NotesAgent._parse_pdf_node
ParsePdfNode(j) ==
    /\ task_pc[j] = "parse_pdf"
    /\ \E readable \in BOOLEAN :
          LET parsed == ParsePdf(task_file_path[j], readable) IN
          Goto(j, "analyze_structure",
               NodeResult(j, "parsing_pdf", parsed.raised = "none",
                          [pdf_content |-> TRUE],
                          <<"PDF parsing failed", parsed.raised>>))

\* what a node records when its try block fails: the ValueError of its own
\* check, or the exception the call it makes raises (raises is TRUE)
NodeFailure(what, checked, message) ==
    <<what, IF checked THEN "Exception" ELSE message>>

\* NotesAgent._analyze_structure_node
AnalyzeStructureNode(j, raises) ==
    /\ task_pc[j] = "analyze_structure"
    /\ \E n \in ListSizes :
          LET checked == agent_state[j].pdf_content IN
          Goto(j, "extract_formulas",
               NodeResult(j, "analyzing_structure", checked /\ ~raises,
                          [topics |-> n],
                          NodeFailure("Structure analysis failed", checked,
                                      "No PDF content available")))

\* NotesAgent._extract_formulas_node
ExtractFormulasNode(j, raises) ==
    /\ task_pc[j] = "extract_formulas"
    /\ \E n \in ListSizes :
          LET checked == agent_state[j].pdf_content /\ agent_state[j].topics # 0 IN
          Goto(j, "generate_notes",
               NodeResult(j, "extracting_formulas", checked /\ ~raises,
                          [formulas |-> n],
                          NodeFailure("Formula extraction failed", checked,
                                      "Missing PDF content or topics")))

\* NotesAgent._generate_notes_node
GenerateNotesNode(j, raises) ==
    /\ task_pc[j] = "generate_notes"
    /\ LET checked == agent_state[j].topics # 0 /\ agent_state[j].formulas # 0 IN
       Goto(j, "create_exercises",
            NodeResult(j, "generating_notes", checked /\ ~raises,
                       [notes |-> TRUE],
                       NodeFailure("Notes generation failed", checked,
                                   "Missing topics or formulas")))

\* NotesAgent._create_exercises_node
CreateExercisesNode(j, raises) ==
    /\ task_pc[j] = "create_exercises"
    /\ \E n \in ListSizes :
          LET checked == agent_state[j].formulas # 0 IN
          Goto(j, "create_comprehensive_exercises",
               NodeResult(j, "creating_exercises", checked /\ ~raises,
                          [exercises |-> n],
                          NodeFailure("Exercise creation failed", checked,
                                      "No formulas available for exercise creation")))

\* NotesAgent._create_comprehensive_exercises_node
CreateComprehensiveExercisesNode(j, raises) ==
    /\ task_pc[j] = "create_comprehensive_exercises"
    /\ LET checked == agent_state[j].formulas # 0 /\ agent_state[j].topics # 0 IN
       Goto(j, "finalize_notes",
            NodeResult(j, "creating_comprehensive_exercises", checked /\ ~raises,
                       <<>>,
                       NodeFailure("Comprehensive exercise creation failed", checked,
                                   "Missing formulas or topics for comprehensive exercises")))

\* NotesAgent._finalize_notes_node; the workflow ends and process_pdf returns
FinalizeNotesNode(j, raises) ==
    /\ task_pc[j] = "finalize_notes"
    /\ LET checked == agent_state[j].notes IN
       Goto(j, "returned",
            NodeResult(j, "finalizing", checked /\ ~raises,
                       [current_step |-> "completed"],
                       NodeFailure("Notes finalization failed", checked,
                                   "No notes to finalize")))

\* FinishProcessing whose error branch leaves the cache alone
FinishProcessingDropping(j) ==
    /\ task_pc[j] = "returned"
    /\ LET error_message == agent_state[j].error IN
       IF error_message # NoError
       THEN /\ UNCHANGED results_cache
            /\ active_jobs' = Del(MarkFailed(active_jobs, j, error_message), j)
       ELSE /\ results_cache' = Put(results_cache, j, CompletedResult(agent_state[j].notes))
            /\ active_jobs' = Del(UpdateJobStatus(active_jobs, j, "completed", 100,
                                                  "Processing completed"), j)
    /\ task_pc' = [task_pc EXCEPT ![j] = "done"]
    /\ UNCHANGED <<agent_state, task_file_path>>

\* FinishProcessing without the finally clause
FinishProcessingKeeping(j) ==
    /\ task_pc[j] = "returned"
    /\ LET error_message == agent_state[j].error IN
       IF error_message # NoError
       THEN /\ results_cache' = Put(results_cache, j, FailedResult(error_message))
            /\ active_jobs' = MarkFailed(active_jobs, j, error_message)
       ELSE /\ results_cache' = Put(results_cache, j, CompletedResult(agent_state[j].notes))
            /\ active_jobs' = UpdateJobStatus(active_jobs, j, "completed", 100,
                                              "Processing completed")
    /\ task_pc' = [task_pc EXCEPT ![j] = "done"]
    /\ UNCHANGED <<agent_state, task_file_path>>

\* AgentManager.get_job_status(job_id): <<>> for None, else <<the result>>
GetJobStatus(job_id) ==
    IF job_id \in DOMAIN results_cache THEN <<results_cache[job_id]>>
    ELSE IF job_id \in DOMAIN active_jobs
    THEN <<[status |-> active_jobs[job_id].status,
            progress |-> active_jobs[job_id].progress,
            message |-> <<"Currently", active_jobs[job_id].current_step>>,
            has_notes_id |-> FALSE, error |-> NoError]>>
    ELSE <<>>

\* AgentManager._process_pdf_async after process_pdf has returned: the error
\* check, the result, and the clean-up of the finally clause
FinishProcessing(j) ==
    /\ task_pc[j] = "returned"
    /\ LET error_message == agent_state[j].error IN
       IF error_message # NoError
       THEN /\ results_cache' = Put(results_cache, j, FailedResult(error_message))
            /\ active_jobs' = Del(MarkFailed(active_jobs, j, error_message), j)
       ELSE /\ results_cache' = Put(results_cache, j, CompletedResult(agent_state[j].notes))
            /\ active_jobs' = Del(UpdateJobStatus(active_jobs, j, "completed", 100,
                                                  "Processing completed"), j)
    /\ task_pc' = [task_pc EXCEPT ![j] = "done"]
    /\ UNCHANGED <<agent_state, task_file_path>>

JobsNext ==
    /\ \E j \in Jobs :
          \/ \E file_path \in FilePaths : StartProcessing(j, file_path)
          \/ BeginProcessing(j, TRUE)
          \/ ParsePdfNode(j)
          \/ AnalyzeStructureNode(j, FALSE)
          \/ ExtractFormulasNode(j, FALSE)
          \/ GenerateNotesNode(j, FALSE)
          \/ CreateExercisesNode(j, FALSE)
          \/ CreateComprehensiveExercisesNode(j, FALSE)
          \/ FinalizeNotesNode(j, FALSE)
          \/ FinishProcessing(j)
    /\ UNCHANGED <<text, op, extractVars, chunkVars, mergeVars, enrichVars, webVars, kwVars, simVars, cleanupVars, respVars, notesVars>>

\* the workflow of up to MaxJobs jobs whose agent was constructed and whose
\* nodes fail by their own checks only
Spec == JobsInit /\ [][JobsNext]_vars

\* the background tasks the fair specification runs
MaxTasks == 1
Tasks == 1..MaxTasks

\* a step of the background task of job j
TaskStep(j) ==
    /\ \/ \E constructed \in BOOLEAN : BeginProcessing(j, constructed)
       \/ ParsePdfNode(j)
       \/ \E raises \in BOOLEAN : AnalyzeStructureNode(j, raises)
       \/ \E raises \in BOOLEAN : ExtractFormulasNode(j, raises)
       \/ \E raises \in BOOLEAN : GenerateNotesNode(j, raises)
       \/ \E raises \in BOOLEAN : CreateExercisesNode(j, raises)
       \/ \E raises \in BOOLEAN : CreateComprehensiveExercisesNode(j, raises)
       \/ \E raises \in BOOLEAN : FinalizeNotesNode(j, raises)
       \/ FinishProcessing(j)
    /\ UNCHANGED <<text, op, extractVars, chunkVars, mergeVars, enrichVars, webVars, kwVars,
                   simVars, cleanupVars, respVars, notesVars>>

TaskNext ==
    \E j \in Tasks :
        \/ /\ \E file_path \in FilePaths : StartProcessing(j, file_path)
           /\ UNCHANGED <<text, op, extractVars, chunkVars, mergeVars, enrichVars, webVars,
                          kwVars, simVars, cleanupVars, respVars, notesVars>>
        \/ TaskStep(j)

\* the event loop runs every task it was given (asyncio.create_task) until
\* the task ends: a task that can take a step eventually takes it
TaskFairness == \A j \in Tasks : WF_vars(TaskStep(j))

\* the background tasks, whether or not the agent could be constructed, run
\* by a fair event loop
SpecTask == JobsInit /\ [][TaskNext]_vars /\ TaskFairness

(***************************************************************************)
(* web_app: upload_pdf and the background task process_pdf_background it   *)
(* starts for each upload.  The module-level names processing_jobs and     *)
(* processor are shared by all tasks; a task runs without interruption     *)
(* between two awaits that suspend (the call to the AI service, the sleep).*)
(***************************************************************************)
MaxWebJobs == 2

WebJobs == 1..MaxWebJobs

\* the API keys of the upload form; the AI service accepts those of ValidKeys
ApiKeys == {<<>>, <<" ">>, <<"o", "k">>, <<"b", "a", "d">>}
ValidKeys == {<<"o", "k">>}

\* what the AI service does with a call made with an accepted key
AIReplies == {"json", "no_json", "exception"}

\* the import of the processing system succeeded
SYSTEM_AVAILABLE == TRUE

\* processor = None
NoProcessor == <<>>

\* PracticalNotesProcessor(openai_api_key): the client is built with the key
PracticalNotesProcessor(openai_api_key) == [client |-> openai_api_key]

\* PracticalNotesProcessor._generate_practical_notes: the notes of the reply,
\* the fallback notes when the call raises or its reply holds no JSON
GeneratePracticalNotes(self, reply) ==
    IF self.client \in ValidKeys /\ reply = "json" THEN "ai_notes" ELSE "fallback_notes"

\* the job entry upload_pdf creates
PendingJob(file_path, api_key) ==
    [file_path |-> file_path, status |-> "pending", progress |-> 0,
     api_key |-> api_key, result |-> "none"]

\* the update of a finished job
CompletedJob(job, notes_data) ==
    [job EXCEPT !.status = "completed", !.progress = 100, !.result = notes_data]

\* the update of the except branch
FailedJob(job) == [job EXCEPT !.status = "failed", !.progress = 0]

WebInit ==
    /\ processing_jobs = <<>>
    /\ processor = NoProcessor
    /\ web_pc = <<>>
    /\ text = <<>>
    /\ op = "none"
    /\ ExtractIdle /\ ChunkIdle /\ MergeIdle /\ EnrichIdle /\ JobsIdle /\ KeywordsIdle /\ SimilarityIdle /\ CleanupIdle /\ ResponseIdle /\ NotesIdle

\* upload_pdf: a file whose name does not end in .pdf is refused; the job is
\* registered and its background task created
UploadPdf(j, suffix, readable, api_key) ==
    /\ j \notin DOMAIN processing_jobs
    /\ Lower(suffix) = <<".", "p", "d", "f">>
    /\ processing_jobs' =
          Put(processing_jobs, j, PendingJob([suffix |-> suffix, readable |-> readable], api_key))
    /\ web_pc' = Put(web_pc, j, "created")
    /\ UNCHANGED processor

\* process_pdf_background up to its first suspension: with a non-blank key the
\* shared processor is built if there is none yet, and processor.process_pdf
\* reads the file and calls the AI service; otherwise the task sleeps
BeginBackground(j) ==
    /\ j \in DOMAIN web_pc
    /\ web_pc[j] = "created"
    /\ LET job == processing_jobs[j] IN
       IF SYSTEM_AVAILABLE /\ Strip(job.api_key) # <<>>
       THEN /\ processor' = IF processor = NoProcessor
                            THEN <<PracticalNotesProcessor(job.api_key)>>
                            ELSE processor
            /\ IF job.file_path.readable
               THEN /\ processing_jobs' =
                          Put(processing_jobs, j,
                              [job EXCEPT !.status = "processing", !.progress = 30])
                    /\ web_pc' = Put(web_pc, j, "awaiting_reply")
               ELSE /\ processing_jobs' = Put(processing_jobs, j, FailedJob(job))
                    /\ web_pc' = Put(web_pc, j, "done")
       ELSE /\ processing_jobs' =
                  Put(processing_jobs, j,
                      [job EXCEPT !.status = "processing", !.progress = 50])
            /\ web_pc' = Put(web_pc, j, "sleeping")
            /\ UNCHANGED processor

\* the AI service answers the call of processor.process_pdf; the notes are
\* written and the job is completed
FinishBackground(j, reply) ==
    /\ j \in DOMAIN web_pc
    /\ web_pc[j] = "awaiting_reply"
    /\ processing_jobs' =
          Put(processing_jobs, j,
              CompletedJob(processing_jobs[j], GeneratePracticalNotes(processor[1], reply)))
    /\ web_pc' = Put(web_pc, j, "done")
    /\ UNCHANGED processor

\* the sleep of the sample branch ends; the sample notes are written
FinishSample(j) ==
    /\ j \in DOMAIN web_pc
    /\ web_pc[j] = "sleeping"
    /\ processing_jobs' =
          Put(processing_jobs, j, CompletedJob(processing_jobs[j], "sample_notes"))
    /\ web_pc' = Put(web_pc, j, "done")
    /\ UNCHANGED processor

WebNext ==
    /\ \E j \in WebJobs :
          \/ \E suffix \in Suffixes, readable \in BOOLEAN, api_key \in ApiKeys :
                UploadPdf(j, suffix, readable, api_key)
          \/ BeginBackground(j)
          \/ \E reply \in AIReplies : FinishBackground(j, reply)
          \/ FinishSample(j)
    /\ UNCHANGED <<text, op, extractVars, chunkVars, mergeVars, enrichVars, jobVars, kwVars, simVars, cleanupVars, respVars, notesVars>>

SpecWeb == WebInit /\ [][WebNext]_vars

(***************************************************************************)
(* web_app: the endpoints view_notes and download_notes, asked for a job   *)
(* at any moment of its background task.  A response is [endpoint, job_id, *)
(* status_code, body]; a TypeError of the handler is the status code 500.  *)
(***************************************************************************)
MaxServedJobs == 1

ServedJobs == 1..MaxServedJobs

Formats == {"json", "html", "pdf"}

Response(endpoint, job_id, status_code, body) ==
    [endpoint |-> endpoint, job_id |-> job_id, status_code |-> status_code, body |-> body]

\* view_notes without the test of the status
ViewNotesAnyStatus(j) ==
    response' =
        IF j \notin DOMAIN processing_jobs THEN Response("view_notes", j, 404, "none")
        ELSE IF processing_jobs[j].result = "none"
        THEN Response("view_notes", j, 500, "none")
        ELSE Response("view_notes", j, 200, processing_jobs[j].result)

\* view_notes(job_id)
ViewNotes(j) ==
    response' =
        IF j \notin DOMAIN processing_jobs THEN Response("view_notes", j, 404, "none")
        ELSE IF processing_jobs[j].status # "completed"
        THEN Response("view_notes", j, 400, "none")
        ELSE IF processing_jobs[j].result = "none"
        THEN Response("view_notes", j, 500, "none")
        ELSE Response("view_notes", j, 200, processing_jobs[j].result)

\* download_notes(job_id, format): the JSON file is always written, the HTML
\* file when there is a formatter
DownloadNotes(j, format) ==
    response' =
        IF j \notin DOMAIN processing_jobs THEN Response("download_notes", j, 404, "none")
        ELSE IF processing_jobs[j].status # "completed"
        THEN Response("download_notes", j, 400, "none")
        ELSE IF processing_jobs[j].result = "none"
        THEN Response("download_notes", j, 500, "none")
        ELSE IF format = "json" THEN Response("download_notes", j, 200, "json_file")
        ELSE IF format = "html" /\ SYSTEM_AVAILABLE
        THEN Response("download_notes", j, 200, "html_file")
        ELSE Response("download_notes", j, 404, "none")

ServeInit == WebInit

ServeNext ==
    /\ \E j \in ServedJobs :
          \/ /\ \/ \E suffix \in Suffixes, readable \in BOOLEAN, api_key \in ApiKeys :
                      UploadPdf(j, suffix, readable, api_key)
                \/ BeginBackground(j)
                \/ \E reply \in AIReplies : FinishBackground(j, reply)
                \/ FinishSample(j)
             /\ UNCHANGED response
          \/ /\ \/ ViewNotes(j)
                \/ \E format \in Formats : DownloadNotes(j, format)
             /\ UNCHANGED webVars
    /\ UNCHANGED <<text, op, extractVars, chunkVars, mergeVars, enrichVars, jobVars, kwVars,
                   simVars, cleanupVars, notesVars>>

SpecServe == ServeInit /\ [][ServeNext]_vars

(***************************************************************************)
(* AgentManager.cleanup_old_jobs and the job ids of generate_unique_id.    *)
(* Time is counted in hours.  A timestamp "%Y%m%d_%H%M%S" is written as    *)
(* one digit for the date (the day), "_", and two digits for the time (the *)
(* hour); the eight characters of the uuid are written as one.             *)
(***************************************************************************)
HoursPerDay == 24

\* the hours the clock may advance
MaxClock == 4
\* the results the cache may hold
MaxCached == 2

\* the clock starts late on day 0, so that it passes midnight
StartHour == 22
UniqueIds == {<<"a">>, <<"b">>}
MaxAges == {0, 1, HoursPerDay}

TwoDigits(n) == <<DigitSeq[(n \div 10) + 1], DigitSeq[(n % 10) + 1]>>

\* datetime.strftime("%Y%m%d_%H%M%S")
Strftime(time) ==
    <<DigitSeq[(time \div HoursPerDay) + 1]>> \o <<"_">> \o TwoDigits(time % HoursPerDay)

\* datetime.strptime(s, "%Y%m%d_%H%M%S"): ok is FALSE when it raises
\* ValueError because s does not match the format
Strptime(s) ==
    IF /\ Len(s) = 4
       /\ s[1] \in Digits /\ s[2] = "_" /\ s[3] \in Digits /\ s[4] \in Digits
       /\ ParseInt(SubSeq(s, 3, 4)) < HoursPerDay
    THEN [ok |-> TRUE, time |-> HoursPerDay * DigitVal(s[1]) + ParseInt(SubSeq(s, 3, 4))]
    ELSE [ok |-> FALSE, time |-> 0]

\* generate_unique_id(prefix) called at the given time, uuid4 giving unique_id
GenerateUniqueId(prefix, time, unique_id) ==
    IF prefix # <<>>
    THEN prefix \o <<"_">> \o Strftime(time) \o <<"_">> \o unique_id
    ELSE Strftime(time) \o <<"_">> \o unique_id

JobPrefix == <<"j","o","b">>

\* the try block of cleanup_old_jobs for one job: the creation time it
\* parses from the id (ok is FALSE when the block raises)
ParsedJobTime(job_id) ==
    LET parts == Split(job_id, <<"_">>) IN
    IF Len(parts) < 2 THEN [ok |-> FALSE, time |-> 0]
    ELSE Strptime(parts[2])

\* jobs_to_remove of cleanup_old_jobs(age) called at current_time
JobsToRemove(cache, current_time, age) ==
    {job_id \in DOMAIN cache :
        /\ ParsedJobTime(job_id).ok
        /\ current_time - ParsedJobTime(job_id).time > age}

CleanupInit ==
    /\ now = StartHour
    /\ max_age_hours = 0
    /\ results_cache = <<>>
    /\ active_jobs = <<>> /\ agent_state = <<>> /\ task_pc = <<>> /\ task_file_path = <<>>
    /\ text = <<>>
    /\ op = "none"
    /\ ExtractIdle /\ ChunkIdle /\ MergeIdle /\ EnrichIdle /\ WebIdle /\ KeywordsIdle /\ SimilarityIdle /\ ResponseIdle /\ NotesIdle

\* an hour passes
Tick ==
    /\ now < StartHour + MaxClock
    /\ now' = now + 1
    /\ op' = "tick"
    /\ UNCHANGED <<max_age_hours, results_cache>>

\* a job started now (start_processing makes its id) has its result cached
RecordJob(unique_id) ==
    LET job_id == GenerateUniqueId(JobPrefix, now, unique_id) IN
    /\ Cardinality(DOMAIN results_cache) < MaxCached
    /\ job_id \notin DOMAIN results_cache
    /\ results_cache' = Put(results_cache, job_id, CompletedResult(TRUE))
    /\ op' = "record_job"
    /\ UNCHANGED <<now, max_age_hours>>

\* AgentManager.cleanup_old_jobs(age)
CleanupOldJobs(age) ==
    LET jobs_to_remove == JobsToRemove(results_cache, now, age) IN
    /\ results_cache' = [job_id \in DOMAIN results_cache \ jobs_to_remove |->
                            results_cache[job_id]]
    /\ max_age_hours' = age
    /\ op' = "cleanup_old_jobs"
    /\ UNCHANGED now

CleanupNext ==
    /\ \/ Tick
       \/ \E unique_id \in UniqueIds : RecordJob(unique_id)
       \/ \E age \in MaxAges : CleanupOldJobs(age)
    /\ UNCHANGED <<text, active_jobs, agent_state, task_pc, task_file_path, extractVars,
                   chunkVars, mergeVars, enrichVars, webVars, kwVars, simVars, respVars, notesVars>>

SpecCleanup == CleanupInit /\ [][CleanupNext]_vars

(***************************************************************************)
(* Claims about the text operations (checked under SpecText).              *)
(***************************************************************************)
\* the normalized form of a latex value: all whitespace removed, lowercased
NormalizedLatex(latex) == Lower(RemoveChars(latex, WhiteSpace))

ExtractorRan == op \in {"ca_extract_formulas", "pp_extract_formulas"}

\* C1: the list either formula extractor returns holds no two formulas whose
\* latex values are equal after removing all whitespace and lowercasing.
C1_DistinctNormalizedLatex ==
    ExtractorRan =>
        \A i, j \in DOMAIN formulas :
            i # j => NormalizedLatex(formulas[i].latex) # NormalizedLatex(formulas[j].latex)

\* C2: in the topic sequence the heading segmenter returns, every topic with a
\* non-null parent_id references a topic of the same sequence whose level is
\* strictly less than its own.
C2_ParentHasLowerLevel ==
    op = "ca_identify_topics" =>
        \A i \in DOMAIN topics :
            topics[i].parent_id # None =>
                \E j \in DOMAIN topics :
                    /\ topics[j].id = topics[i].parent_id
                    /\ topics[j].level < topics[i].level

\* C2 witness: a level-3 topic under a level-2 topic under a level-1 topic
C2_Witness ==
    /\ op = "ca_identify_topics"
    /\ Len(topics) >= 3
    /\ \E i, j, k \in DOMAIN topics :
          /\ topics[i].level = 3 /\ topics[i].parent_id = topics[j].id
          /\ topics[j].level = 2 /\ topics[j].parent_id = topics[k].id
          /\ topics[k].level = 1 /\ topics[k].parent_id = None

\* a text in which no formula can be recognised: none of the signs every
\* formula pattern needs ($, =, \, /, an integral, sum or product sign)
NoFormulaSign(t) ==
    \A k \in DOMAIN t : t[k] \notin {"$", "=", "\\", "/", "INT", "SUM", "PROD", "PARTIAL"}

\* a text in which no heading can be recognised: no line begins, after its
\* leading blanks, with #, a digit, "chapter" or "section"
NoHeadingStart(t) ==
    LET lines == Split(t, <<"\n">>) IN
    \A k \in DOMAIN lines :
        LET line == Lower(Strip(lines[k])) IN
        /\ line # <<>> => line[1] \notin Digits \cup {"#"}
        /\ ~StartsWith(line, <<"c","h","a","p","t","e","r">>)
        /\ ~StartsWith(line, <<"s","e","c","t","i","o","n">>)

Chunked == op = "split_text_into_chunks"

\* the least position >= i at which sub occurs in t (0: none)
RECURSIVE FindFrom(_, _, _)
FindFrom(t, sub, i) ==
    IF i + Len(sub) - 1 > Len(t) THEN 0
    ELSE IF SubSeq(t, i, i + Len(sub) - 1) = sub THEN i
    ELSE FindFrom(t, sub, i + 1)

\* the chunks from the k-th on occur in t, one after the other, from position i on
RECURSIVE InReadOrderFrom(_, _, _, _)
InReadOrderFrom(cs, t, k, i) ==
    IF k > Len(cs) THEN TRUE
    ELSE LET at == FindFrom(t, cs[k], i) IN
         at # 0 /\ InReadOrderFrom(cs, t, k + 1, at + Len(cs[k]))

\* a chunk that is one sentence: it holds no sentence or paragraph separator
IsSingleSentence(c) ==
    FindFrom(c, SentenceSep, 1) = 0 /\ FindFrom(c, ParagraphSep, 1) = 0

\* C3: each chunk the chunker returns is within budget (len(chunk) // 4 <=
\* budget), the only exception being a chunk that is one single sentence
\* which by itself exceeds the budget; the chunks appear in the read order of
\* the text.
C3_ChunksWithinBudget ==
    Chunked =>
        /\ \A k \in DOMAIN chunks :
              \/ EstimatedTokens(chunks[k]) <= token_budget
              \/ IsSingleSentence(chunks[k])
        /\ InReadOrderFrom(chunks, text, 1, 1)

\* C13: the chunker called with the text "A. B. C." and token budget 1
\* returns 3 chunks, none empty, each one sentence, that are "A", "B", "C."
\* up to the sentence separators: joined with ". " they give the text.
C13_ChunkerExampleChunks ==
    (Chunked /\ text = ChunkerExample /\ token_budget = 1) =>
        /\ Len(chunks) = 3
        /\ \A k \in DOMAIN chunks : chunks[k] # <<>> /\ IsSingleSentence(chunks[k])
        /\ Join(chunks, SentenceSep) = text

Paragraphs(t) == Split(t, ParagraphSep)

AllParagraphsFit ==
    \A k \in DOMAIN Paragraphs(text) : EstimatedTokens(Paragraphs(text)[k]) <= token_budget

NonEmptyParagraphs(t) == SelectSeq(Paragraphs(t), LAMBDA x : x # <<>>)

\* C4 as stated: when every paragraph fits the budget, joining the chunks
\* with the paragraph separator reproduces the original text exactly.
C4_JoinReproducesText ==
    (Chunked /\ AllParagraphsFit) => Join(chunks, ParagraphSep) = text

\* C4: when every paragraph fits the budget, joining the chunks with the
\* paragraph separator reproduces the non-empty paragraphs of the text, each
\* one exactly and in order; it reproduces the text exactly when the text
\* has no empty paragraph.
C4_JoinReproducesParagraphs ==
    (Chunked /\ AllParagraphsFit) =>
        /\ NonEmptyParagraphs(Join(chunks, ParagraphSep)) = NonEmptyParagraphs(text)
        /\ (\A k \in DOMAIN Paragraphs(text) : Paragraphs(text)[k] # <<>>)
              => Join(chunks, ParagraphSep) = text

\* C4 witness: a text over budget, split at a paragraph boundary into two
\* chunks that join to the text
C4_Witness ==
    /\ Chunked
    /\ AllParagraphsFit
    /\ EstimatedTokens(text) > token_budget
    /\ Len(chunks) >= 2
    /\ \A k \in DOMAIN Paragraphs(text) : Paragraphs(text)[k] # <<>>
    /\ Join(chunks, ParagraphSep) = text

(***************************************************************************)
(* Claims about the merger (checked under SpecMerge).                      *)
(***************************************************************************)
Merged == op = "merge_topics"

\* the list _merge_topics returned
MergeResult == merged[Len(candidates) + 1]

LongTitle(topic) == Len(topic.title) > MinTitleLen

Similar(topic1, topic2) == SimilarityAbove(Lower(topic1.title), Lower(topic2.title))

\* C5 as stated: merging into an empty structural list returns exactly the
\* candidates whose title is longer than 3, in order, each as its own entry.
C5_AllLongCandidatesReturned ==
    (Merged /\ structural = <<>>) =>
        MergeResult = SelectSeq(candidates, LongTitle)

\* the places of the candidates, among the first n, that are kept as entries
RECURSIVE KeptUpTo(_, _)
KeptUpTo(cs, n) ==
    IF n = 0 THEN {}
    ELSE LET before == KeptUpTo(cs, n - 1) IN
         IF LongTitle(cs[n]) /\ \A k \in before : ~Similar(cs[n], cs[k])
         THEN before \cup {n}
         ELSE before

\* C5: merging into an empty structural list returns, in candidate order,
\* exactly the candidates whose title is longer than 3 and not similar
\* (similarity > 0.7) to a candidate kept before them; only the keywords of a
\* kept candidate may differ from the candidate's.
C5_DissimilarLongCandidatesReturned ==
    (Merged /\ structural = <<>>) =>
        LET kept == KeptUpTo(candidates, Len(candidates)) IN
        /\ Len(MergeResult) = Cardinality(kept)
        /\ \A k \in DOMAIN MergeResult :
              /\ (0 - MergeResult[k].id) \in kept
              /\ [MergeResult[k] EXCEPT !.keywords = {}]
                    = [candidates[0 - MergeResult[k].id] EXCEPT !.keywords = {}]
              /\ candidates[0 - MergeResult[k].id].keywords \subseteq MergeResult[k].keywords
        /\ \A k, l \in DOMAIN MergeResult :
              k < l => MergeResult[k].id > MergeResult[l].id

\* C5 witness: of two similar candidates with long titles only the first is
\* returned, with the keywords of both
C5_Witness ==
    /\ Merged
    /\ structural = <<>>
    /\ Len(candidates) = 2
    /\ LongTitle(candidates[1]) /\ LongTitle(candidates[2])
    /\ Similar(candidates[1], candidates[2])
    /\ Len(MergeResult) = 1
    /\ MergeResult[1].keywords = candidates[1].keywords \cup candidates[2].keywords

WithoutKeywords(topic) == [topic EXCEPT !.keywords = {}]

\* C17: the merger starts from the structural list: after every candidate the
\* first len(structural) entries of the merged list are the structural topics
\* in their order, with id, title, type, level, parent_id, content and
\* page_range unchanged; only their keywords may change (they keep the ones
\* they had), and no structural topic is removed or moved.
C17_StructuralTopicsKept ==
    Merged =>
        \A n \in DOMAIN merged :
            /\ Len(merged[n]) >= Len(structural)
            /\ \A k \in DOMAIN structural :
                  /\ WithoutKeywords(merged[n][k]) = WithoutKeywords(structural[k])
                  /\ structural[k].keywords \subseteq merged[n][k].keywords

\* C17 witness: of two candidates merged into two structural topics one is
\* folded into the second structural topic, whose keywords grow and whose
\* title differs from the candidate's, and the other is appended after them
C17_Witness ==
    /\ Merged
    /\ Len(structural) = 2
    /\ Len(candidates) = 2
    /\ Len(MergeResult) = 3
    /\ MergeResult[3] \in {candidates[1], candidates[2]}
    /\ MergeResult[2].keywords # structural[2].keywords
    /\ MergeResult[1].keywords = structural[1].keywords
    /\ \E n \in DOMAIN candidates :
          /\ Similar(candidates[n], structural[2])
          /\ candidates[n].title # structural[2].title

(***************************************************************************)
(* Claims about the enrichment (checked under SpecEnrich).                 *)
(***************************************************************************)
Enhanced == op = "enhance_formulas_with_ai"

\* the enrichment call of a batch fails: it raises, or its reply has no
\* content, no JSON object, or one that does not parse
FailedReply(reply) ==
    reply.kind \in {"exception", "no_content", "no_json", "invalid_json"}

\* C7: whenever the enrichment call for a batch fails (exception, bad
\* response or unparseable reply), every formula candidate of that batch
\* appears in the output as a fallback Formula keeping its raw latex and
\* context with a generic name; the other batches are still processed.
C7_FailedBatchFallsBack ==
    Enhanced =>
        \A b \in 0..(NumBatches(Len(raw)) - 1) :
            FailedReply(replies[b + 1]) =>
                \A f \in DOMAIN BatchOf(raw, b) :
                    \E k \in DOMAIN enhanced :
                        /\ enhanced[k].id = BatchOf(raw, b)[f].id
                        /\ enhanced[k].latex = BatchOf(raw, b)[f].latex
                        /\ enhanced[k].context = BatchOf(raw, b)[f].context
                        /\ enhanced[k].name[1] = "Formula"

\* the sections of the notes that hold the formula
SectionsHolding(formula) ==
    {n \in DOMAIN sections :
        \E k \in DOMAIN sections[n].formulas : sections[n].formulas[k] = formula}

\* C29: every Formula returned for a non-empty topic list has a topic_id
\* equal to the id of one of the supplied topics (the one the enrichment
\* names, the first topic otherwise), so the structured notes hold every
\* formula in exactly one section and no formula is lost.
C29_EveryFormulaInOneSection ==
    /\ (Enhanced /\ enrich_topics # <<>>) =>
          \A k \in DOMAIN enhanced : enhanced[k].topic_id \in SeqToSet(enrich_topics)
    /\ op = "create_structured_notes" =>
          \A k \in DOMAIN enhanced : Cardinality(SectionsHolding(enhanced[k])) = 1

(***************************************************************************)
(* Claims about the workflow and the job manager (checked under Spec).     *)
(***************************************************************************)
\* C8: a run ends with an error only when a precondition is violated; a
\* readable document, also one whose text yields an empty topic list or an
\* empty formula list, finishes without error and is reported completed.
C8_ReadableDocumentCompletes ==
    \A j \in Jobs :
        (task_pc[j] = "done" /\ j \in DOMAIN agent_state /\ agent_state[j].pdf_content) =>
            /\ agent_state[j].error = NoError
            /\ results_cache[j].status = "completed"

\* the parse node of job j has just returned
Parsed(j) == task_pc[j] = "analyze_structure"

\* C10: parse_pdf raises FileNotFoundError when the path does not exist, and
\* ValueError when the path exists but its suffix is not .pdf in any case of
\* letters; it returns no content then, and the existence of the path is
\* tested before its suffix.
C10_TypedPreconditionFailures ==
    \A j \in Jobs :
        Parsed(j) =>
            LET file_path == task_file_path[j]
                is_pdf == Lower(file_path.suffix) = <<".", "p", "d", "f">>
                state == agent_state[j]
            IN /\ ~file_path.exists =>
                     /\ state.error = <<"PDF parsing failed", "FileNotFoundError">>
                     /\ ~state.pdf_content
               /\ (file_path.exists /\ ~is_pdf) =>
                     /\ state.error = <<"PDF parsing failed", "ValueError">>
                     /\ ~state.pdf_content
               /\ (file_path.exists /\ is_pdf) =>
                     state.error \notin {<<"PDF parsing failed", "FileNotFoundError">>,
                                         <<"PDF parsing failed", "ValueError">>}

\* C10 witness: a missing path whose suffix is not .pdf has been parsed, and
\* an existing path with the suffix .PDF has been parsed into content
C10_Witness ==
    \E i, j \in Jobs :
        /\ Parsed(i)
        /\ ~task_file_path[i].exists
        /\ task_file_path[i].suffix = <<".", "t", "x", "t">>
        /\ agent_state[i].error = <<"PDF parsing failed", "FileNotFoundError">>
        /\ task_pc[j] # "unstarted"
        /\ task_pc[j] \notin {"created", "parse_pdf"}
        /\ task_file_path[j].suffix = <<".", "P", "D", "F">>
        /\ j \in DOMAIN agent_state
        /\ agent_state[j].pdf_content

(***************************************************************************)
(* Claims about the worked examples of the segmenter and the extractors    *)
(* (checked under SpecText).                                               *)
(***************************************************************************)
\* C11: on the segmenter's worked example the heading segmenter returns
\* exactly 2 topics: a level-1 topic titled "Waves" with no parent, then a
\* level-2 topic titled "Frequency" whose parent is the "Waves" topic.
C11_SegmenterExampleTopics ==
    (op = "ca_identify_topics" /\ text = SegmenterExample) =>
        /\ Len(topics) = 2
        /\ topics[1].level = 1
        /\ topics[1].title = <<"W","a","v","e","s">>
        /\ topics[1].parent_id = None
        /\ topics[2].level = 2
        /\ topics[2].title = <<"F","r","e","q","u","e","n","c","y">>
        /\ topics[2].parent_id = topics[1].id

\* C12: on the extractor's worked example either formula extractor returns
\* exactly 1 formula, whose normalized latex is "f=ma".
C12_ExtractorExampleFormulas ==
    (ExtractorRan /\ text = ExtractorExample) =>
        /\ Len(formulas) = 1
        /\ NormalizedLatex(formulas[1].latex) = <<"f","=","m","a">>

\* C14: every formula either extractor returns carries a context field, and
\* that context (the text around the match) is not empty.
C14_FormulasCarryContext ==
    ExtractorRan =>
        \A i \in DOMAIN formulas :
            /\ "context" \in DOMAIN formulas[i]
            /\ formulas[i].context # <<>>

(***************************************************************************)
(* Claims about the web jobs (checked under SpecWeb).                      *)
(***************************************************************************)
\* the outcomes a job has when it is processed with a processor of its own,
\* built with its own API key
OwnOutcomes(job) ==
    IF ~(SYSTEM_AVAILABLE /\ Strip(job.api_key) # <<>>)
    THEN {<<"completed", "sample_notes">>}
    ELSE IF ~job.file_path.readable THEN {<<"failed", "none">>}
    ELSE {<<"completed", GeneratePracticalNotes(PracticalNotesProcessor(job.api_key), reply)>> :
             reply \in AIReplies}

\* C15: concurrent jobs share no mutable structure other than the job-status
\* map; each job is processed with a processor and an API key of its own, so
\* the outcome of a finished job is one it can have by its own inputs alone,
\* whichever jobs were submitted before it or run alongside it.
C15_JobOutcomeIndependent ==
    \A j \in DOMAIN web_pc :
        web_pc[j] = "done" =>
            <<processing_jobs[j].status, processing_jobs[j].result>>
                \in OwnOutcomes(processing_jobs[j])

LowerBefore(ts, i) == {j \in 1..(i - 1) : ts[j].level < ts[i].level}

\* C18: hierarchy inference gives the topic at place i the id of the nearest
\* preceding topic (largest j < i) of a strictly lower level, and leaves
\* parent_id null exactly when no preceding topic has a strictly lower level;
\* the parent precedes its child, so parent links form no cycle.
C18_NearestLowerLevelParent ==
    op = "ca_identify_topics" =>
        \A i \in DOMAIN topics :
            LET lower == LowerBefore(topics, i) IN
            /\ (topics[i].parent_id = None) <=> (lower = {})
            /\ lower # {} =>
                  LET nearest == CHOOSE j \in lower : \A l \in lower : l <= j IN
                  /\ topics[i].parent_id = topics[nearest].id
                  /\ nearest < i
                  /\ \A k \in DOMAIN topics : topics[k].id = topics[i].parent_id => k < i

\* C18 witness: of three topics of levels 1, 2, 3 the third has the second as
\* its parent, not the first, and the first has none
C18_Witness ==
    /\ op = "ca_identify_topics"
    /\ Len(topics) = 3
    /\ topics[1].level = 1 /\ topics[2].level = 2 /\ topics[3].level = 3
    /\ LowerBefore(topics, 3) = {1, 2}
    /\ topics[3].parent_id = topics[2].id
    /\ topics[3].parent_id # topics[1].id
    /\ topics[1].parent_id = None

\* the rules of the list that match the line
RulesMatching(patterns, line) ==
    {k \in DOMAIN patterns : ReMatch(patterns[k].atoms, line).ok}

\* what a line yields when the first rule of the list that matches it decides:
\* no topic when no rule matches or when the title of that first match is
\* rejected, else one topic of the level and type of that rule
HeadOf(ca, patterns, line) ==
    LET matching == RulesMatching(patterns, line) IN
    IF matching = {} THEN <<>>
    ELSE LET first == CHOOSE k \in matching : \A l \in matching : k <= l
             p == patterns[first]
             m == ReMatch(p.atoms, line)
             title == IF ca THEN CATitle(p, m, line) ELSE Strip(Group(m, line, 1))
             accepted == IF ca THEN CATitleAccepted(title) ELSE PPTitleAccepted(title)
         IN IF accepted
            THEN <<[level |-> p.level, type |-> p.type, title |-> title]>>
            ELSE <<>>

HeadsOf(ca, patterns, lines) ==
    Flatten([i \in DOMAIN lines |-> HeadOf(ca, patterns, Strip(lines[i]))])

\* the level, type and title of each topic of a list
HeadsOfTopics(ts) ==
    [i \in DOMAIN ts |-> [level |-> ts[i].level, type |-> ts[i].type, title |-> ts[i].title]]

\* C19: in both heading segmenters the rules are tried in list order for each
\* line and the first rule that matches decides: a line yields at most one
\* topic, of the level and type of the first matching rule, and no topic at
\* all when the title of that first match is rejected.
C19_FirstMatchingRuleDecides ==
    /\ op = "ca_identify_topics" =>
          HeadsOfTopics(topics) = HeadsOf(TRUE, CAHeadingPatterns, Split(text, <<"\n">>))
    /\ op = "pp_identify_topics" =>
          HeadsOfTopics(topics) = HeadsOf(FALSE, PPHeadingPatterns, Split(text, <<"\n">>))

\* C19 witness: one line matches a rule but its title is rejected and yields
\* nothing, another matches a rule that is not the first of the list and
\* yields the one topic returned
C19_Witness ==
    /\ op = "ca_identify_topics"
    /\ Len(topics) = 1
    /\ LET lines == Split(text, <<"\n">>) IN
       \E a, b \in DOMAIN lines :
          /\ RulesMatching(CAHeadingPatterns, Strip(lines[a])) # {}
          /\ HeadOf(TRUE, CAHeadingPatterns, Strip(lines[a])) = <<>>
          /\ 1 \notin RulesMatching(CAHeadingPatterns, Strip(lines[b]))
          /\ HeadOf(TRUE, CAHeadingPatterns, Strip(lines[b])) = HeadsOfTopics(topics)

\* the places (from 1) of the lines that yield a topic
RECURSIVE TopicLinesFrom(_, _)
TopicLinesFrom(lines, i) ==
    IF i > Len(lines) THEN <<>>
    ELSE (IF HeadOf(TRUE, CAHeadingPatterns, Strip(lines[i])) # <<>> THEN <<i>> ELSE <<>>)
         \o TopicLinesFrom(lines, i + 1)

\* the non-empty lines from place i to place last, up to but not including
\* the first line that matches a heading rule
RECURSIVE LinesUntilHeading(_, _, _)
LinesUntilHeading(lines, i, last) ==
    IF i > last THEN <<>>
    ELSE LET line == Strip(lines[i]) IN
         IF RulesMatching(CAHeadingPatterns, line) # {} THEN <<>>
         ELSE (IF line # <<>> THEN <<line>> ELSE <<>>)
              \o LinesUntilHeading(lines, i + 1, last)

\* C20: the content of a topic is the concatenation, in order, of the
\* non-empty lines that follow its heading line up to but not including the
\* next line that matches a heading rule, within the maximum line count; a
\* following line that matches no heading rule neither ends the content nor
\* is left out.
C20_ContentUntilNextHeading ==
    op = "ca_identify_topics" =>
        LET lines == Split(text, <<"\n">>)
            at == TopicLinesFrom(lines, 1)
        IN /\ Len(at) = Len(topics)
           /\ \A i \in DOMAIN topics :
                 topics[i].content =
                    Join(LinesUntilHeading(lines, at[i] + 1,
                                           Min(at[i] + MaxContentLines, Len(lines))),
                         <<"\n">>)

(***************************************************************************)
(* Claims about the keyword extraction (checked under SpecKeywords).       *)
(***************************************************************************)
\* the lowercased alphabetic words of length >= 3 of a text, in text order
AlphabeticWords(t) == FindAll(WordPattern, Lower(t))

NotStopWord(word) == word \notin StopWords

\* the keywords as stated: the alphabetic words of length >= 3 that are not
\* stop words and occur more than once, by descending frequency with ties in
\* first-seen order, at most MaxKeywords of them
StatedKeywords(t) ==
    LET words == SelectSeq(AlphabeticWords(t), NotStopWord)
        distinct == FirstSeen(words, {})
        Repeated(w) == CountOf(words, w) > 1
        repeated == SelectSeq(distinct, Repeated)
        ranked == SortedBy(repeated, [k \in DOMAIN repeated |-> 0 - CountOf(words, repeated[k])])
    IN SubSeq(ranked, 1, Min(MaxKeywords, Len(ranked)))

\* C21: _extract_keywords returns at most 10 keywords: the lowercased
\* alphabetic words of length >= 3 that are not stop words and occur more
\* than once, ordered by descending frequency with ties in first-seen order;
\* all of them when there are 10 or fewer.
C21_KeywordsAsStated ==
    op = "extract_keywords" =>
        /\ Len(keywords) <= MaxKeywords
        /\ keywords = StatedKeywords(text)

(***************************************************************************)
(* Claims about formula deduplication and filtering (checked under         *)
(* SpecText).                                                              *)
(***************************************************************************)
\* the candidates k that come first among those of their key: no candidate
\* of the same key has a smaller offset (or the same offset and an earlier
\* place in the candidate list)
IsEarliestOfKey(k, keys, offsets) ==
    \A j \in DOMAIN keys :
        keys[j] = keys[k] => (offsets[k] < offsets[j] \/ (offsets[k] = offsets[j] /\ k <= j))

\* the places of the earliest candidate of each key, by ascending offset
EarliestPerKey(keys, offsets) ==
    LET Earliest(k) == IsEarliestOfKey(k, keys, offsets)
        places == SelectSeq([k \in DOMAIN keys |-> k], Earliest)
    IN SortedBy(places, [k \in DOMAIN places |-> offsets[places[k]]])

\* the candidates whose key the deduplication does not drop altogether
CAKeyedCandidates(t) ==
    LET Keyed(c) == Len(CANormalize(c.latex)) > 2
    IN SelectSeq(NumberIds(CACandidatesFrom(1, t)), Keyed)

CAEarliestSurvivors(t) ==
    LET cands == CAKeyedCandidates(t)
        places == EarliestPerKey([k \in DOMAIN cands |-> CANormalize(cands[k].latex)],
                                 [k \in DOMAIN cands |-> cands[k].position])
    IN [k \in DOMAIN places |-> cands[places[k]]]

PPEarliestSurvivors(t) ==
    LET cands == NumberIds(PPLatexCandidatesFrom(1, t) \o PPMathCandidatesFrom(1, t))
        places == EarliestPerKey([k \in DOMAIN cands |-> PPFormulaKey(cands[k].latex)],
                                 [k \in DOMAIN cands |-> cands[k].start_pos])
    IN [k \in DOMAIN places |-> cands[places[k]]]

RNKeyedCandidates(t) ==
    LET Keyed(c) == Len(RemoveChars(Lower(c.content), WhiteSpace)) > RNMinNormalized
    IN SelectSeq(RNCandidates(t), Keyed)

RNEarliestSurvivors(t) ==
    LET cands == RNKeyedCandidates(t)
        places == EarliestPerKey(
                      [k \in DOMAIN cands |-> RemoveChars(Lower(cands[k].content), WhiteSpace)],
                      [k \in DOMAIN cands |-> cands[k].start])
    IN [k \in DOMAIN places |-> RNFormula(cands[places[k]])]

\* C22: in the deduplication of the three extractors, of all the matches
\* that share a normalized key the one kept is the occurrence with the
\* smallest source offset, whichever pattern found it, and the formulas are
\* returned in ascending source-offset order.
C22_EarliestOccurrenceSurvives ==
    /\ op = "ca_extract_formulas" => formulas = CAEarliestSurvivors(text)
    /\ op = "pp_extract_formulas" => formulas = PPEarliestSurvivors(text)
    /\ op = "rn_extract_formulas" => formulas = RNEarliestSurvivors(text)

\* C23: no formula returned by ContentAnalyzer._extract_formulas_by_pattern
\* or PDFParser.extract_formulas has a stripped text shorter than 3
\* characters or made of digits only.
C23_NoShortOrNumericFormula ==
    op \in {"ca_extract_formulas", "pp_extract_formulas"} =>
        \A k \in DOMAIN formulas :
            /\ Len(Strip(formulas[k].latex)) >= 3
            /\ ~IsDigit(Strip(formulas[k].latex))

(***************************************************************************)
(* Claims about the similarity (checked under SpecSimilarity).             *)
(***************************************************************************)
\* the whitespace-separated words of a text, as a set: its maximal runs of
\* characters that are not whitespace
WordSet(t) ==
    {SubSeq(t, i, j) : <<i, j>> \in
        {p \in (DOMAIN t) \X (DOMAIN t) :
            /\ p[1] <= p[2]
            /\ \A k \in p[1]..p[2] : t[k] \notin WhiteSpace
            /\ (p[1] = 1 \/ t[p[1] - 1] \in WhiteSpace)
            /\ (p[2] = Len(t) \/ t[p[2] + 1] \in WhiteSpace)}}

\* num1/den1 = num2/den2
SameQuotient(q1, q2) == q1.num * q2.den = q2.num * q1.den

\* |intersection| / |union| of the word sets, 0 when either has no words
Jaccard(t1, t2) ==
    IF WordSet(t1) = {} \/ WordSet(t2) = {} THEN Zero
    ELSE [num |-> Cardinality(WordSet(t1) \cap WordSet(t2)),
          den |-> Cardinality(WordSet(t1) \cup WordSet(t2))]

JaccardAndItsBounds ==
    /\ SameQuotient(similarity, Jaccard(sim_text1, sim_text2))
    /\ SameQuotient(similarity, CalculateSimilarity(sim_text2, sim_text1))
    /\ similarity.den > 0 /\ 0 <= similarity.num /\ similarity.num <= similarity.den
    /\ WordSet(sim_text1) \cap WordSet(sim_text2) = {} => similarity.num = 0

\* C24 as stated: _calculate_similarity is the token-set Jaccard similarity
\* of its arguments, 0 when either has no words; it is symmetric, lies in
\* [0, 1], is 1 for two identical non-empty titles and 0 for titles with no
\* common word.
C24_JaccardOfNonEmptyTitles ==
    op = "calculate_similarity" =>
        /\ JaccardAndItsBounds
        /\ (sim_text1 = sim_text2 /\ sim_text1 # <<>>) => similarity.num = similarity.den

\* C24 amended: as above, with 1 for two identical titles that have at
\* least one word (a title of whitespace only is not empty but has no words).
C24_JaccardOfTitlesWithWords ==
    op = "calculate_similarity" =>
        /\ JaccardAndItsBounds
        /\ (sim_text1 = sim_text2 /\ WordSet(sim_text1) # {}) => similarity.num = similarity.den

\* two different titles with a common word and a word of their own each
C24_Witness ==
    /\ op = "calculate_similarity"
    /\ sim_text1 = <<"a", " ", "b">>
    /\ sim_text2 = <<"b", " ", "a", "b">>
    /\ similarity = [num |-> 1, den |-> 3]

(***************************************************************************)
(* Claims about the cleanup of old jobs (checked under SpecCleanup).       *)
(***************************************************************************)
\* the creation time generate_unique_id put into a job id: the timestamp
\* between the prefix and the uuid
CreationTime(job_id) ==
    LET parts == Split(job_id, <<"_">>)
    IN Strptime(parts[2] \o <<"_">> \o parts[3]).time

\* C25: cleanup_old_jobs(max_age_hours) removes from results_cache exactly
\* the jobs whose age, counted from the creation time in the job id, is more
\* than max_age_hours, and leaves every younger job.
C25_CleanupRemovesOldJobs ==
    [][op' = "cleanup_old_jobs" =>
          DOMAIN results_cache' =
              {job_id \in DOMAIN results_cache :
                  ~(now - CreationTime(job_id) > max_age_hours')}]_vars

(***************************************************************************)
(* Claims about the background tasks (checked under SpecTask).             *)
(***************************************************************************)
\* start_processing has returned the id of job j
Started(j) == task_pc[j] # "unstarted"

\* C26: from the moment start_processing returns a job id, at every later
\* point of the job's background task, also after its clean-up, the id is in
\* active_jobs or in results_cache, and get_job_status never returns None.
C26_StartedJobHasStatus ==
    \A j \in Jobs :
        Started(j) =>
            /\ j \in DOMAIN active_jobs \cup DOMAIN results_cache
            /\ GetJobStatus(j) # <<>>

\* a task has ended and removed its job from active_jobs; the job's status
\* is the failed result in the cache
C26_Witness ==
    \E j \in Jobs :
        /\ task_pc[j] = "done"
        /\ j \notin DOMAIN active_jobs
        /\ GetJobStatus(j) = <<results_cache[j]>>
        /\ results_cache[j].status = "failed"
        /\ j \in DOMAIN agent_state

\* the task of job j has ended with one result in the cache, COMPLETED or
\* FAILED, and the job is no longer in active_jobs
Terminal(j) ==
    /\ task_pc[j] = "done"
    /\ j \in DOMAIN results_cache
    /\ results_cache[j].status \in {"completed", "failed"}
    /\ j \notin DOMAIN active_jobs

\* C27: every started job eventually reaches a terminal status: its result,
\* COMPLETED or FAILED, is in results_cache and the job is out of
\* active_jobs; a recorded result is never replaced by one of the other
\* status.
C27_JobReachesTerminalStatus ==
    /\ \A j \in Jobs : Started(j) ~> Terminal(j)
    /\ [][\A j \in DOMAIN results_cache :
              /\ j \in DOMAIN results_cache'
              /\ results_cache'[j].status = results_cache[j].status]_vars

\* a job has reached COMPLETED
C27_Witness ==
    \E j \in Jobs : Terminal(j) /\ results_cache[j].status = "completed"

\* a node of the workflow of job j has recorded an error
ErrorRecorded(j) == j \in DOMAIN agent_state /\ agent_state[j].error # NoError

\* C30: the nodes run in the fixed order, and once a node has recorded an
\* error no later node clears it: the state process_pdf returns has an
\* error, and the job is recorded FAILED, never COMPLETED.
C30_RecordedErrorIsKept ==
    /\ [][\A j \in Jobs : ErrorRecorded(j) => ErrorRecorded(j)']_vars
    /\ [](\A j \in Jobs :
            ErrorRecorded(j) =>
                /\ j \in DOMAIN results_cache => results_cache[j].status = "failed"
                /\ task_pc[j] = "done" => j \in DOMAIN results_cache)

\* a node recorded an error, the last node succeeded after it, and the job
\* is recorded FAILED
C30_Witness ==
    \E j \in Jobs :
        /\ task_pc[j] = "done"
        /\ ErrorRecorded(j)
        /\ agent_state[j].current_step = "completed"
        /\ j \in DOMAIN results_cache
        /\ results_cache[j].status = "failed"

(***************************************************************************)
(* Claims about the web endpoints (checked under SpecServe).               *)
(***************************************************************************)
\* the endpoint answered with the notes or a file
Served == response # <<>> /\ response.status_code = 200

\* C28: in processing_jobs a completed job has progress 100 and a result
\* that is not null; a pending, processing or failed job is never served by
\* view_notes or download_notes, which therefore never read a null result.
C28_OnlyCompletedJobsServed ==
    /\ \A j \in DOMAIN processing_jobs :
          processing_jobs[j].status = "completed" =>
              /\ processing_jobs[j].progress = 100
              /\ processing_jobs[j].result # "none"
    /\ response # <<>> => response.status_code # 500
    /\ Served => processing_jobs[response.job_id].status = "completed"

\* the notes of a completed job have been served, and so has its file
C28_Witness ==
    /\ Served
    /\ response.endpoint = "view_notes"
    /\ response.body = "ai_notes"
    /\ processing_jobs[response.job_id].status = "completed"

=============================================================================
